---- MODULE Spec2Model ----
(***************************************************************************)
(* Placement-and-corridor core of rehmanul/CADGinie-August.                *)
(*                                                                         *)
(* Units.  Lengths are integers in centimetres, areas in cm^2.  Fractions  *)
(* (coverage profile) are in percent, scores in per-mille.  Floating-point *)
(* arithmetic of the source is modelled in fixed point at that resolution. *)
(* Polygons are axis-aligned boxes [x1, y1, x2, y2]; the usable area is a  *)
(* box (the walls envelope) minus a restricted box minus the clearance     *)
(* disc of an entrance point.                                              *)
(***************************************************************************)
EXTENDS Integers, Sequences, FiniteSets, TLC

VARIABLES
  geometry,             \* request: [walls, restricted_areas, entrances]
  islands,              \* request: the island size list, <<width, height>> pairs
  coverage_profile,     \* request: target coverage, percent
  corridor_width,       \* request: corridor width, cm
  pc,                   \* position inside optimize_intelligent_layout
  ilot_specs,           \* parsed island specifications
  optimization_space,   \* the space handed to every strategy
  population,           \* genetic algorithm: current population
  generation,           \* genetic algorithm: generations completed
  optimization_results, \* results of the strategies that succeeded, in run order
  raised,               \* strategies whose call ended in an exception
  response,             \* return value of optimize_intelligent_layout
  usable_area,          \* corridor synthesis: usable area
  placed_islands,       \* corridor synthesis: the layout, a list of boxes
  cpc,                  \* corridor synthesis: position
  island_rows,          \* corridor synthesis: detected rows (lists of island indices)
  corridors,            \* corridor synthesis: the corridor list
  placement_area,       \* LayoutOptimizer: usable area [outer, hole, first]
  islands_to_place,     \* LayoutOptimizer: island sizes to place
  strategy,             \* LayoutOptimizer: position in _place_islands_optimized
  strategy_outcomes,    \* LayoutOptimizer: what each strategy that returned placed
  best_placement,       \* LayoutOptimizer: best_result, the best placement so far
  best_coverage,        \* LayoutOptimizer: island area of best_placement, cm^2
  final_layout,         \* LayoutOptimizer: the layout handed back to the pipeline
  layout_result,        \* production engine: the optimizer's result (phase 3)
  corridor_result,      \* production engine: result of _generate_corridor_network
  qa_results,           \* production engine: result of _perform_quality_assurance
  production_pc,        \* production engine: position in process_complete_floorplan
  production_response,  \* production engine: return value of process_complete_floorplan
  optimizer,            \* FloorPlanEngine: "standard" (core_logic) or "fast" (core_logic_fast)
  coverage_keyword,     \* FloorPlanEngine: the coverage_profile keyword of the request
  coverage,             \* FloorPlanEngine: the mapped fraction, percent
  floor_area,           \* FloorPlanEngine: usable_area.area, m^2
  island_dimensions,    \* FloorPlanEngine: the parsed island dimension list, metres
  target_island_area,   \* optimize_layout: target area, in hundredths of m^2
  sized_islands,        \* island size generation: the list `islands`
  generated_area,       \* island size generation: current_area, m^2
  sizes_pc,             \* FloorPlanEngine: position in generate_floorplan
  while_turns,          \* island size generation: turns of the while loop, modulo 2
  categorisation,       \* an island and the category each optimizer gave it
  preparation,          \* geometry preparation: the parts found and the usable area kept
  fast_layout           \* FastLayoutOptimizer._fast_placement: sizes, placed, occupied

vars == <<geometry, islands, coverage_profile, corridor_width, pc, ilot_specs,
          optimization_space, population, generation, optimization_results,
          raised, response, usable_area, placed_islands, cpc, island_rows,
          corridors, placement_area, islands_to_place, strategy, strategy_outcomes,
          best_placement, best_coverage, final_layout, layout_result,
          corridor_result, qa_results, production_pc, production_response,
          optimizer, coverage_keyword, coverage, floor_area, island_dimensions,
          target_island_area, sized_islands, generated_area, sizes_pc,
          while_turns, categorisation, preparation, fast_layout>>

engine_vars == <<geometry, islands, coverage_profile, corridor_width, pc, ilot_specs,
                 optimization_space, population, generation, optimization_results,
                 raised, response>>

corridor_vars == <<usable_area, placed_islands, cpc, island_rows, corridors>>

placer_vars == <<placement_area, islands_to_place, strategy, strategy_outcomes, best_placement,
                 best_coverage, final_layout>>

production_vars == <<layout_result, corridor_result, qa_results, production_pc,
                     production_response>>

sizes_vars == <<optimizer, coverage_keyword, coverage, floor_area, island_dimensions,
                target_island_area, sized_islands, generated_area, sizes_pc,
                while_turns>>

category_vars == <<categorisation>>

preparer_vars == <<preparation>>

fast_vars == <<fast_layout>>

(***************************************************************************)
(* Arithmetic helpers                                                      *)
(***************************************************************************)
Min(a, b) == IF a <= b THEN a ELSE b

Max(a, b) == IF a >= b THEN a ELSE b

Abs(a) == IF a >= 0 THEN a ELSE 0 - a

\* int(a / b) of Python for b > 0: truncation toward zero.
Trunc(a, b) == IF a >= 0 THEN a \div b ELSE 0 - ((0 - a) \div b)

RECURSIVE SqrtSearch(_, _, _)
SqrtSearch(n, lo, hi) ==
  IF lo >= hi THEN lo
  ELSE LET mid == (lo + hi + 1) \div 2
       IN IF mid * mid <= n THEN SqrtSearch(n, mid, hi) ELSE SqrtSearch(n, lo, mid - 1)

\* math.sqrt, rounded down to a whole centimetre.
Sqrt(n) == SqrtSearch(n, 0, 4000)

RECURSIVE SumSeq(_)
SumSeq(s) == IF s = <<>> THEN 0 ELSE Head(s) + SumSeq(Tail(s))

(***************************************************************************)
(* Geometry: shapely boxes, points and the operations the code uses        *)
(***************************************************************************)
box(x1, y1, x2, y2) == [x1 |-> x1, y1 |-> y1, x2 |-> x2, y2 |-> y2]

\* Polygon(): the empty polygon (also stands for a geometry entry that is None).
EmptyPolygon == box(0, 0, 0, 0)

is_empty(r) == r.x2 <= r.x1 \/ r.y2 <= r.y1

area(r) == IF is_empty(r) THEN 0 ELSE (r.x2 - r.x1) * (r.y2 - r.y1)

intersection(a, b) ==
  box(Max(a.x1, b.x1), Max(a.y1, b.y1), Min(a.x2, b.x2), Min(a.y2, b.y2))

\* shapely intersects: true also when the two boxes only touch.
intersects(a, b) ==
  /\ ~is_empty(a) /\ ~is_empty(b)
  /\ a.x1 <= b.x2 /\ b.x1 <= a.x2 /\ a.y1 <= b.y2 /\ b.y1 <= a.y2

\* box a within box b
within(a, b) ==
  /\ ~is_empty(a)
  /\ b.x1 <= a.x1 /\ a.x2 <= b.x2 /\ b.y1 <= a.y1 /\ a.y2 <= b.y2

Point(x, y) == [present |-> TRUE, x |-> x, y |-> y]

\* an entrances entry that is None
NoPoint == [present |-> FALSE, x |-> 0, y |-> 0]

\* squared distance between a box and a point
distance2_point(r, p) ==
  LET dx == Max(Max(r.x1 - p.x, p.x - r.x2), 0)
      dy == Max(Max(r.y1 - p.y, p.y - r.y2), 0)
  IN dx * dx + dy * dy

\* squared distance between two boxes
distance2(a, b) ==
  LET dx == Max(Max(a.x1 - b.x2, b.x1 - a.x2), 0)
      dy == Max(Max(a.y1 - b.y2, b.y1 - a.y2), 0)
  IN dx * dx + dy * dy

\* squared distance between two centre points <<x, y>>
center_distance2(c1, c2) ==
  (c1[1] - c2[1]) * (c1[1] - c2[1]) + (c1[2] - c2[2]) * (c1[2] - c2[2])

(***************************************************************************)
(* IntelligentLayoutOptimizer: configuration                               *)
(***************************************************************************)
\* accessibility_config['min_clearance'] = 1.5 m
min_clearance == 150

\* accessibility_config['entrance_clearance'] = 2.0 m
entrance_clearance == 200

\* accessibility_config['max_travel_distance'] = 30.0 m
max_travel_distance == 3000

\* ilot_categories[...]['max_area']: 6, 15 and 30 m^2
small_max_area == 60000

medium_max_area == 150000

large_max_area == 300000

\* 0.01 m^2 overlap tolerance of _is_valid_placement
overlap_tolerance == 100

\* optimization_space.area < 0.1 m^2 triggers the fallback space
min_space_area == 1000

\* 10 m x 10 m accessibility zones
zone_size == 1000

\* Number of quadrature cells per clearance radius used to measure the area
\* an entrance clearance disc removes from a region.
QuadSegments == 5

QuadCell == entrance_clearance \div QuadSegments

(***************************************************************************)
(* Regions: a box minus a restricted box minus an entrance clearance disc. *)
(* This is the shape of every usable space the model hands to placement.   *)
(***************************************************************************)
Region(outer, restricted, entrance) ==
  [outer |-> outer, restricted |-> restricted, entrance |-> entrance]

EmptyRegion == Region(EmptyPolygon, EmptyPolygon, NoPoint)

\* area of the part of the clearance disc that lies in outer and not in restricted
disc_area(reg) ==
  IF ~reg.entrance.present \/ is_empty(reg.outer) THEN 0
  ELSE LET e == reg.entrance
           lo(c) == (c - entrance_clearance) \div QuadCell
           hi(c) == (c + entrance_clearance) \div QuadCell
           cx(i) == i * QuadCell + QuadCell \div 2
           inside(px, py) ==
             /\ reg.outer.x1 < px /\ px < reg.outer.x2
             /\ reg.outer.y1 < py /\ py < reg.outer.y2
             /\ ~(/\ ~is_empty(reg.restricted)
                  /\ reg.restricted.x1 < px /\ px < reg.restricted.x2
                  /\ reg.restricted.y1 < py /\ py < reg.restricted.y2)
             /\ (px - e.x) * (px - e.x) + (py - e.y) * (py - e.y)
                  < entrance_clearance * entrance_clearance
       IN QuadCell * QuadCell *
            Cardinality({c \in (lo(e.x)..hi(e.x)) \X (lo(e.y)..hi(e.y)) :
                            inside(cx(c[1]), cx(c[2]))})

\* polygon.area
region_area(reg) ==
  area(reg.outer) - area(intersection(reg.outer, reg.restricted)) - disc_area(reg)

\* polygon.bounds: the outer box, cut back where the restricted box removes a
\* whole side of it.
region_bounds(reg) ==
  LET o == reg.outer
      i == intersection(o, reg.restricted)
      full_x == i.x1 <= o.x1 /\ i.x2 >= o.x2
      full_y == i.y1 <= o.y1 /\ i.y2 >= o.y2
  IN IF is_empty(i) \/ is_empty(o) THEN o
     ELSE IF full_x /\ full_y THEN EmptyPolygon
     ELSE IF full_x /\ i.y1 <= o.y1 THEN box(o.x1, i.y2, o.x2, o.y2)
     ELSE IF full_x /\ i.y2 >= o.y2 THEN box(o.x1, o.y1, o.x2, i.y1)
     ELSE IF full_y /\ i.x1 <= o.x1 THEN box(i.x2, o.y1, o.x2, o.y2)
     ELSE IF full_y /\ i.x2 >= o.x2 THEN box(o.x1, o.y1, i.x1, o.y2)
     ELSE o

\* polygon.contains(box): no point of the box outside the region
region_contains(reg, r) ==
  /\ within(r, reg.outer)
  /\ area(intersection(r, reg.restricted)) = 0
  /\ reg.entrance.present =>
       distance2_point(r, reg.entrance) >= entrance_clearance * entrance_clearance

\* polygon.intersection(box)
region_intersection(reg, r) ==
  Region(intersection(reg.outer, r), reg.restricted, reg.entrance)

(***************************************************************************)
(* _parse_ilot_specifications                                              *)
(***************************************************************************)
ilot_category(a) ==
  IF a <= small_max_area THEN "small"
  ELSE IF a <= medium_max_area THEN "medium"
  ELSE IF a <= large_max_area THEN "large"
  ELSE "extra_large"

_parse_ilot_specifications(dims) ==
  [k \in 1..Len(dims) |->
     [width |-> dims[k][1], height |-> dims[k][2],
      area |-> dims[k][1] * dims[k][2],
      category |-> ilot_category(dims[k][1] * dims[k][2])]]

(***************************************************************************)
(* _prepare_optimization_space and the fallback of                         *)
(* optimize_intelligent_layout                                             *)
(***************************************************************************)
\* walls - restricted_areas - entrances.buffer(entrance_clearance);
\* EmptyRegion stands for the None returned when there are no walls.
_prepare_optimization_space(g) ==
  IF is_empty(g.walls) THEN EmptyRegion
  ELSE Region(g.walls, g.restricted_areas, g.entrances)

\* box(0, 0, 50, 30): "standard room size"
standard_room == box(0, 0, 5000, 3000)

\* the space the strategies run on (lines 54-65)
working_space(g) ==
  LET space == _prepare_optimization_space(g)
  IN IF region_area(space) < min_space_area
     THEN IF ~is_empty(g.walls)
          THEN Region(g.walls, EmptyPolygon, NoPoint)
          ELSE Region(standard_room, EmptyPolygon, NoPoint)
     ELSE space

(***************************************************************************)
(* Islands, validity and the accessibility score                           *)
(***************************************************************************)
\* the geometry argument {} that the random, crossover, mutation and force
\* steps pass to _is_valid_placement
NoGeometry ==
  [walls |-> EmptyPolygon, restricted_areas |-> EmptyPolygon, entrances |-> NoPoint]

\* box(x - w/2, y - h/2, x + w/2, y + h/2)
centered_box(x, y, w, h) ==
  box(x - w \div 2, y - h \div 2, x - w \div 2 + w, y - h \div 2 + h)

\* the island dictionary built by the strategies
make_island(id, x, y, spec) ==
  [id |-> id, geometry |-> centered_box(x, y, spec.width, spec.height),
   center |-> <<x, y>>, width |-> spec.width, height |-> spec.height,
   area |-> spec.area, category |-> spec.category]

_is_valid_placement(ilot_geometry, space, existing_islands, g) ==
  /\ region_contains(space, ilot_geometry)
  /\ \A k \in 1..Len(existing_islands) :
       intersects(ilot_geometry, existing_islands[k].geometry) =>
         area(intersection(ilot_geometry, existing_islands[k].geometry))
           <= overlap_tolerance
  /\ g.entrances.present =>
       distance2_point(ilot_geometry, g.entrances)
         >= entrance_clearance * entrance_clearance

\* islands of the layout closer than the entrance clearance to the entrance
near_entrance(layout, g) ==
  {k \in 1..Len(layout) :
     /\ g.entrances.present
     /\ distance2_point(layout[k].geometry, g.entrances)
          < entrance_clearance * entrance_clearance}

\* pairs of islands of the layout closer than min_clearance
close_pairs(layout) ==
  {p \in (1..Len(layout)) \X (1..Len(layout)) :
     /\ p[1] < p[2]
     /\ distance2(layout[p[1]].geometry, layout[p[2]].geometry)
          < min_clearance * min_clearance}

\* per-mille
_calculate_accessibility_score(layout, g) ==
  IF layout = <<>> THEN 0
  ELSE Max(0, 1000 - 100 * Cardinality(near_entrance(layout, g))
                   - 50 * Cardinality(close_pairs(layout)))

\* sum(island['geometry'].area for island in layout)
layout_area(layout) == SumSeq([k \in 1..Len(layout) |-> area(layout[k].geometry)])

\* a strategy's success result
strategy_result(layout, covered, space, g) ==
  [success |-> TRUE, algorithm |-> "",
   layout |-> [islands |-> layout],
   coverage_achieved |-> [num |-> covered, den |-> region_area(space)],
   accessibility_score |-> _calculate_accessibility_score(layout, g)]

(***************************************************************************)
(* _grid_based_placement                                                   *)
(***************************************************************************)
\* np.mean([spec['width'] for spec in ilot_specs])
mean_width(specs) == SumSeq([k \in 1..Len(specs) |-> specs[k].width]) \div Len(specs)

\* np.mean([spec['area'] for spec in ilot_specs])
mean_area(specs) == SumSeq([k \in 1..Len(specs) |-> specs[k].area]) \div Len(specs)

\* np.arange(start, stop, step) for step > 0
arange(start, stop, step) ==
  LET n == IF stop <= start THEN 0 ELSE (stop - start - 1) \div step + 1
  IN [k \in 1..n |-> start + (k - 1) * step]

\* current_area >= optimization_space.area * coverage_profile
target_reached(current_area, space, cp) == 100 * current_area >= region_area(space) * cp

_grid_based_placement(space, specs, cp, g, cw) ==
  LET b == region_bounds(space)
      avg_ilot_size == mean_width(specs)
      grid_spacing == avg_ilot_size + cw
      x_points == arange(b.x1 + avg_ilot_size \div 2, b.x2 - avg_ilot_size \div 2, grid_spacing)
      y_points == arange(b.y1 + avg_ilot_size \div 2, b.y2 - avg_ilot_size \div 2, grid_spacing)
      ny == Len(y_points)
      RECURSIVE place(_, _, _)
      place(k, placed, current_area) ==
        IF k > Len(x_points) * ny \/ target_reached(current_area, space, cp)
        THEN <<placed, current_area>>
        ELSE LET x == x_points[(k - 1) \div ny + 1]
                 y == y_points[((k - 1) % ny) + 1]
                 island_id == Len(placed)
                 spec == specs[(island_id % Len(specs)) + 1]
                 island == make_island(island_id, x, y, spec)
             IN IF _is_valid_placement(island.geometry, space, placed, g)
                THEN place(k + 1, Append(placed, island), current_area + spec.area)
                ELSE place(k + 1, placed, current_area)
      out == place(1, <<>>, 0)
  IN strategy_result(out[1], out[2], space, g)

(***************************************************************************)
(* _accessibility_optimized_placement                                      *)
(***************************************************************************)
\* zone.distance(entrances)^2: the zone ends at the clearance disc when the
\* space it was cut from has the disc removed
zone_entrance_distance2(zone, g) ==
  LET d2 == distance2_point(region_bounds(zone), g.entrances)
  IN IF zone.entrance.present
     THEN Max(d2, entrance_clearance * entrance_clearance)
     ELSE d2

_calculate_zone_accessibility(zone, g) ==
  LET d2e == zone_entrance_distance2(zone, g)
      entrance_penalty ==
        IF ~g.entrances.present THEN 0
        ELSE IF d2e < entrance_clearance * entrance_clearance THEN 500
        ELSE IF d2e > max_travel_distance * max_travel_distance THEN 300
        ELSE 0
      restricted_penalty ==
        IF is_empty(g.restricted_areas) THEN 0
        ELSE IF distance2(region_bounds(zone), g.restricted_areas)
                  < min_clearance * min_clearance THEN 400
        ELSE 0
  IN Max(0, 1000 - entrance_penalty - restricted_penalty)

_identify_accessibility_zones(space, g) ==
  LET b == region_bounds(space)
      x_zones == Trunc(b.x2 - b.x1, zone_size) + 1
      y_zones == Trunc(b.y2 - b.y1, zone_size) + 1
      cell(k) ==
        LET i == (k - 1) \div y_zones
            j == (k - 1) % y_zones
            zone_x == b.x1 + i * zone_size
            zone_y == b.y1 + j * zone_size
            zone_rect == box(zone_x, zone_y, zone_x + zone_size, zone_y + zone_size)
            zone_intersection == region_intersection(space, zone_rect)
        IN [geometry |-> zone_intersection,
            center |-> <<zone_x + zone_size \div 2, zone_y + zone_size \div 2>>,
            accessibility_score |-> _calculate_zone_accessibility(zone_intersection, g)]
      all == [k \in 1..(x_zones * y_zones) |-> cell(k)]
      enough(z) == 2 * region_area(z.geometry) > zone_size * zone_size
  IN SelectSeq(all, enough)

\* sorted(zones, key=accessibility_score, reverse=True): stable insertion of
\* zone z into an already sorted list
insert_zone(z, sorted) ==
  LET ahead == {k \in 1..Len(sorted) : sorted[k].accessibility_score >= z.accessibility_score}
      n == Cardinality(ahead)
  IN [k \in 1..(Len(sorted) + 1) |->
        IF k <= n THEN sorted[k] ELSE IF k = n + 1 THEN z ELSE sorted[k - 1]]

RECURSIVE sort_zones(_, _, _)
sort_zones(zones, k, sorted) ==
  IF k > Len(zones) THEN sorted
  ELSE sort_zones(zones, k + 1, insert_zone(zones[k], sorted))

sorted_zones(zones) == sort_zones(zones, 1, <<>>)

RECURSIVE fill_zone(_, _, _, _, _, _, _)
fill_zone(zone, specs, start_id, x_positions, y_positions, k, out) ==
  IF k > Len(x_positions) * Len(y_positions) THEN out
  ELSE LET x == x_positions[(k - 1) \div Len(y_positions) + 1]
           y == y_positions[((k - 1) % Len(y_positions)) + 1]
           island_id == start_id + Len(out)
           spec == specs[(island_id % Len(specs)) + 1]
           island == make_island(island_id, x, y, spec)
       IN IF region_contains(zone.geometry, island.geometry)
          THEN fill_zone(zone, specs, start_id, x_positions, y_positions, k + 1,
                         Append(out, island))
          ELSE fill_zone(zone, specs, start_id, x_positions, y_positions, k + 1, out)

_place_islands_in_zone(zone, specs, start_id, cw) ==
  LET zb == region_bounds(zone.geometry)
      avg_size == mean_width(specs)
      spacing == avg_size + cw
      x_positions == arange(zb.x1 + avg_size \div 2, zb.x2 - avg_size \div 2, spacing)
      y_positions == arange(zb.y1 + avg_size \div 2, zb.y2 - avg_size \div 2, spacing)
  IN fill_zone(zone, specs, start_id, x_positions, y_positions, 1, <<>>)

\* inner loop of _accessibility_optimized_placement over the islands proposed
\* for one zone; the result is <<placed_islands, current_area>>
RECURSIVE take_islands(_, _, _, _, _, _, _)
take_islands(zone_islands, k, placed, current_area, space, cp, g) ==
  IF k > Len(zone_islands) \/ target_reached(current_area, space, cp)
  THEN <<placed, current_area>>
  ELSE IF _is_valid_placement(zone_islands[k].geometry, space, placed, g)
       THEN take_islands(zone_islands, k + 1, Append(placed, zone_islands[k]),
                         current_area + zone_islands[k].area, space, cp, g)
       ELSE take_islands(zone_islands, k + 1, placed, current_area, space, cp, g)

\* outer loop over the sorted zones; island_id counts the islands placed so far
RECURSIVE visit_zones(_, _, _, _, _, _, _, _, _)
visit_zones(zones, z, placed, current_area, space, specs, cp, g, cw) ==
  IF z > Len(zones) \/ target_reached(current_area, space, cp)
  THEN <<placed, current_area>>
  ELSE LET zone_islands == _place_islands_in_zone(zones[z], specs, Len(placed), cw)
           got == take_islands(zone_islands, 1, placed, current_area, space, cp, g)
       IN visit_zones(zones, z + 1, got[1], got[2], space, specs, cp, g, cw)

_accessibility_optimized_placement(space, specs, cp, g, cw) ==
  LET zones == sorted_zones(_identify_accessibility_zones(space, g))
      out == visit_zones(zones, 1, <<>>, 0, space, specs, cp, g, cw)
  IN strategy_result(out[1], out[2], space, g)

(***************************************************************************)
(* The random source.  random.uniform over the bounds of the space is      *)
(* drawn from a few sample points of the bounds, random displacements from *)
(* a few steps; every other random choice is enumerated in full.           *)
(***************************************************************************)
\* sample positions, in quarters of the width and height of the bounds
SampleFractions == {<<2, 1>>, <<2, 2>>, <<0, 0>>}

sample_points(b) ==
  {<<b.x1 + ((b.x2 - b.x1) * f[1]) \div 4, b.y1 + ((b.y2 - b.y1) * f[2]) \div 4>> :
     f \in SampleFractions}

\* displacements drawn by random.uniform(-2, 2) in _mutate
mutation_steps == {<<-100, 0>>, <<0, 150>>}

\* attempts per requested island in _generate_random_layout (50 in the code)
AttemptsPerIlot == 2

\* population_size of _genetic_algorithm (50 in the code)
PopulationSize == 3

\* generations of _genetic_algorithm (100 in the code)
Generations == 1

\* iterations of _apply_force_directed_optimization (100 in the code)
ForceIterations == 2

\* tournament_size of _tournament_selection
tournament_size == 3

\* elite_size = population_size // 10
elite_divisor == 10

(***************************************************************************)
(* _generate_random_layout: the set of layouts it can return               *)
(***************************************************************************)
RECURSIVE random_layouts(_, _, _, _, _)
random_layouts(space, specs, num_ilots, placed, attempts) ==
  IF Len(placed) >= num_ilots \/ attempts >= num_ilots * AttemptsPerIlot
  THEN {placed}
  ELSE UNION {
         LET island == make_island(Len(placed), pt[1], pt[2], specs[s])
         IN IF _is_valid_placement(island.geometry, space, placed, NoGeometry)
            THEN random_layouts(space, specs, num_ilots, Append(placed, island), attempts + 1)
            ELSE random_layouts(space, specs, num_ilots, placed, attempts + 1) :
         pt \in sample_points(region_bounds(space)), s \in 1..Len(specs)}

_generate_random_layout(space, specs, num_ilots) ==
  random_layouts(space, specs, num_ilots, <<>>, 0)

\* int(optimization_space.area * coverage_profile / mean island area)
num_ilots_target(space, specs, cp) == (region_area(space) * cp) \div (100 * mean_area(specs))

(***************************************************************************)
(* Layout scoring for the genetic algorithm (per-mille)                    *)
(***************************************************************************)
\* 1.0 - abs(total_area - target_area) / target_area, not floored
coverage_score(layout, space, cp) ==
  LET target == (region_area(space) * cp) \div 100
      total == layout_area(layout)
  IN 1000 - (1000 * (Abs(total - target) \div 100)) \div (target \div 100)

_calculate_distribution_score(layout) ==
  IF Len(layout) < 2 THEN 1000
  ELSE LET n == Len(layout)
           pairs == {p \in (1..n) \X (1..n) : p[1] < p[2]}
           dist(p) == Sqrt(center_distance2(layout[p[1]].center, layout[p[2]].center))
           RECURSIVE total(_, _)
           total(S, pow) ==
             IF S = {} THEN 0
             ELSE LET p == CHOOSE q \in S : TRUE
                  IN (IF pow = 1 THEN dist(p) ELSE dist(p) * dist(p)) + total(S \ {p}, pow)
           k == Cardinality(pairs)
           mean_distance == total(pairs, 1) \div k
           variance == total(pairs, 2) \div k - mean_distance * mean_distance
       IN IF mean_distance > 0
          THEN Max(0, 1000 - (1000 * variance) \div (mean_distance * mean_distance))
          ELSE 0

_calculate_overlap_penalty(layout) ==
  LET n == Len(layout)
      pairs == {p \in (1..n) \X (1..n) :
                  p[1] < p[2] /\ intersects(layout[p[1]].geometry, layout[p[2]].geometry)}
      RECURSIVE total(_)
      total(S) ==
        IF S = {} THEN 0
        ELSE LET p == CHOOSE q \in S : TRUE
             IN (1000 * area(intersection(layout[p[1]].geometry, layout[p[2]].geometry)))
                  \div Min(layout[p[1]].area, layout[p[2]].area)
                + total(S \ {p})
  IN total(pairs)

_evaluate_layout_fitness(layout, space, cp, g) ==
  Max(0, (4 * coverage_score(layout, space, cp)
          + 3 * _calculate_accessibility_score(layout, g)
          + 2 * _calculate_distribution_score(layout)
          - _calculate_overlap_penalty(layout)) \div 10)

(***************************************************************************)
(* Genetic operators: the sets of results their random choices allow       *)
(***************************************************************************)
\* indices that can win a tournament of tournament_size distinct entrants
_tournament_selection(fitness_scores) ==
  LET n == Len(fitness_scores)
      entrants == {T \in SUBSET (1..n) : Cardinality(T) = tournament_size}
  IN {i \in 1..n : \E T \in entrants :
        i \in T /\ \A j \in T : fitness_scores[j] <= fitness_scores[i]}

\* the layout kept from all_islands visited in the given order
crossover_in_order(all_islands, order, space) ==
  LET RECURSIVE pick(_, _)
      pick(k, offspring) ==
        IF k > Len(all_islands) THEN offspring
        ELSE LET island == all_islands[order[k]]
             IN IF _is_valid_placement(island.geometry, space, offspring, NoGeometry)
                THEN pick(k + 1, Append(offspring, [island EXCEPT !.id = Len(offspring)]))
                ELSE pick(k + 1, offspring)
  IN pick(1, <<>>)

_crossover(parent1, parent2, space) ==
  LET all_islands == parent1 \o parent2
  IN IF all_islands = <<>> THEN {<<>>}
     ELSE {crossover_in_order(all_islands, order, space) :
             order \in Permutations(1..Len(all_islands))}

\* the island moved by step and clamped to the bounds; unchanged if the move is invalid
mutate_island(individual, i, step, space) ==
  LET island == individual[i]
      b == region_bounds(space)
      new_x == Max(b.x1 + island.width \div 2,
                   Min(b.x2 - island.width \div 2, island.center[1] + step[1]))
      new_y == Max(b.y1 + island.height \div 2,
                   Min(b.y2 - island.height \div 2, island.center[2] + step[2]))
      new_geometry == centered_box(new_x, new_y, island.width, island.height)
      other_islands == SelectSeq([j \in 1..Len(individual) |->
                                    IF j = i THEN [individual[j] EXCEPT !.id = -1]
                                    ELSE individual[j]],
                                 LAMBDA o : o.id # -1)
  IN IF _is_valid_placement(new_geometry, space, other_islands, NoGeometry)
     THEN [individual EXCEPT ![i] = [island EXCEPT !.geometry = new_geometry,
                                                   !.center = <<new_x, new_y>>]]
     ELSE individual

RECURSIVE mutate_from(_, _, _)
mutate_from(individual, i, space) ==
  IF i > Len(individual) THEN {individual}
  ELSE mutate_from(individual, i + 1, space)
       \cup UNION {mutate_from(mutate_island(individual, i, step, space), i + 1, space) :
                     step \in mutation_steps}

_mutate(individual, space) == mutate_from(individual, 1, space)

\* the offspring one pass of the reproduction loop can append
offspring_of(pop, fitness_scores, space) ==
  LET winners == _tournament_selection(fitness_scores)
  IN UNION {UNION {_mutate(child, space) : child \in _crossover(pop[w[1]], pop[w[2]], space)} :
              w \in winners \X winners}

\* np.argsort(fitness_scores) without the reversal: ascending, the least fit first
sorted_indices_ascending(fitness_scores) ==
  LET n == Len(fitness_scores)
      before(i, j) == \/ fitness_scores[i] < fitness_scores[j]
                      \/ fitness_scores[i] = fitness_scores[j] /\ i < j
  IN [r \in 1..n |-> CHOOSE i \in 1..n : Cardinality({j \in 1..n : before(j, i)}) = r - 1]

\* np.argsort(fitness_scores)[::-1]: descending, ties by higher index first
sorted_indices(fitness_scores) ==
  LET n == Len(fitness_scores)
      before(i, j) == \/ fitness_scores[i] > fitness_scores[j]
                      \/ fitness_scores[i] = fitness_scores[j] /\ i > j
  IN [r \in 1..n |-> CHOOSE i \in 1..n : Cardinality({j \in 1..n : before(j, i)}) = r - 1]

\* np.argmax: the first index of the maximum
argmax(scores) ==
  CHOOSE i \in 1..Len(scores) :
    /\ \A j \in 1..Len(scores) : scores[j] <= scores[i]
    /\ \A j \in 1..(i - 1) : scores[j] < scores[i]

(***************************************************************************)
(* _apply_force_directed_optimization                                      *)
(***************************************************************************)
\* force on island i in thousandths of a centimetre of displacement:
\* learning_rate * (inverse-square repulsion + 0.01 * pull to the centre)
force_on(layout, i, space, cw) ==
  LET b == region_bounds(space)
      c == layout[i].center
      repulsion(j, axis) ==
        LET d2 == center_distance2(c, layout[j].center)
            d == Sqrt(d2)
        IN IF j = i \/ d = 0 THEN 0
           ELSE Trunc(((1000 * cw * cw) \div d2) * (c[axis] - layout[j].center[axis]) * 10, d)
      sum(axis) == SumSeq([j \in 1..Len(layout) |-> repulsion(j, axis)])
      center_x == (b.x1 + b.x2) \div 2
      center_y == (b.y1 + b.y2) \div 2
  IN <<sum(1) + (center_x - c[1]), sum(2) + (center_y - c[2])>>

force_iteration(layout, space, cw) ==
  LET forces == [i \in 1..Len(layout) |-> force_on(layout, i, space, cw)]
      RECURSIVE apply(_, _)
      apply(i, cur) ==
        IF i > Len(cur) THEN cur
        ELSE LET island == cur[i]
                 new_x == island.center[1] + Trunc(forces[i][1], 1000)
                 new_y == island.center[2] + Trunc(forces[i][2], 1000)
                 new_geometry == centered_box(new_x, new_y, island.width, island.height)
                 other_islands == SelectSeq([j \in 1..Len(cur) |->
                                               IF j = i THEN [cur[j] EXCEPT !.id = -1]
                                               ELSE cur[j]],
                                            LAMBDA o : o.id # -1)
             IN IF _is_valid_placement(new_geometry, space, other_islands, NoGeometry)
                THEN apply(i + 1, [cur EXCEPT ![i] = [island EXCEPT !.geometry = new_geometry,
                                                                    !.center = <<new_x, new_y>>]])
                ELSE apply(i + 1, cur)
  IN apply(1, layout)

RECURSIVE force_iterations(_, _, _, _)
force_iterations(layout, space, cw, left) ==
  IF left = 0 THEN layout
  ELSE force_iterations(force_iteration(layout, space, cw), space, cw, left - 1)

_apply_force_directed_optimization(layout, space, cw) ==
  force_iterations(layout, space, cw, ForceIterations)

(***************************************************************************)
(* _select_best_layout and _enhance_layout_intelligence                    *)
(***************************************************************************)
\* composite_score = 0.6 * (1 - |coverage_achieved - coverage_profile|)
\*                   + 0.4 * accessibility_score,
\* times 10000 * (area of the space in dm^2); every result of one request has
\* the same space, so the scaled scores compare as the scores do.
composite_score(result, cp) ==
  LET den == result.coverage_achieved.den \div 100
      num == result.coverage_achieved.num \div 100
  IN 60 * (100 * den - Abs(100 * num - cp * den)) + 4 * result.accessibility_score * den

\* best_score = -1, on the same scale
initial_best_score(results) == 0 - 10000 * (results[1].coverage_achieved.den \div 100)

\* index of the result the loop of _select_best_layout ends with (0: none)
best_index(results, cp) ==
  LET RECURSIVE scan(_, _, _)
      scan(k, best, best_score) ==
        IF k > Len(results) THEN best
        ELSE IF composite_score(results[k], cp) > best_score
             THEN scan(k + 1, k, composite_score(results[k], cp))
             ELSE scan(k + 1, best, best_score)
  IN IF results = <<>> THEN 0 ELSE scan(1, 0, initial_best_score(results))

_select_best_layout(results, cp) == results[best_index(results, cp)]

\* distance < 20 of _create_routing_graph
routing_distance == 2000

\* edges of the routing graph, as pairs of island ids
_create_routing_graph(layout) ==
  {<<layout[p[1]].id, layout[p[2]].id>> :
     p \in {q \in (1..Len(layout)) \X (1..Len(layout)) :
              /\ q[1] < q[2]
              /\ center_distance2(layout[q[1]].center, layout[q[2]].center)
                   < routing_distance * routing_distance}}

_enhance_layout_intelligence(layout) ==
  [islands |-> layout.islands, routing_graph |-> _create_routing_graph(layout.islands)]

(***************************************************************************)
(* Requests                                                                *)
(***************************************************************************)
\* the walls envelope of the requests: a 12 m x 8 m room
Walls == box(0, 0, 1200, 800)

\* restricted zones: none, a corner zone, a zone leaving a 1 m strip of the
\* room (usable area 8 m^2, too narrow for any requested island), a zone
\* leaving a 1 cm sliver (usable area 0.08 m^2), a zone covering the room
\* (usable area 0)
RestrictedAreas ==
  {EmptyPolygon, box(0, 400, 400, 800), box(0, 0, 1100, 800), box(0, 0, 1199, 800),
   box(0, 0, 1200, 800)}

\* entrances: none, or a door in the middle of the south wall
Entrances == {NoPoint, Point(600, 0)}

Geometries ==
  {[walls |-> Walls, restricted_areas |-> r, entrances |-> e] :
     r \in RestrictedAreas, e \in Entrances}

\* island size lists ("2x2", "4x3", "2x2,4x2", "") with a coverage profile in percent
Requests ==
  {[islands |-> <<<<200, 200>>>>, coverage_profile |-> 12],
   [islands |-> <<<<400, 300>>>>, coverage_profile |-> 25],
   [islands |-> <<<<200, 200>>, <<400, 200>>>>, coverage_profile |-> 10],
   [islands |-> <<>>, coverage_profile |-> 10]}

CorridorWidths == {120}

\* self.optimization_algorithms, in dictionary order
algorithm_names == <<"genetic", "grid_based", "force_directed", "accessibility_optimized">>

next_algorithm(name) ==
  IF name = "genetic" THEN "grid_based"
  ELSE IF name = "grid_based" THEN "force_directed"
  ELSE IF name = "force_directed" THEN "accessibility_optimized"
  ELSE "select"

NoResponse == [success |-> FALSE, pending |-> TRUE]

(***************************************************************************)
(* optimize_intelligent_layout as a state machine                          *)
(***************************************************************************)
EngineInit ==
  /\ geometry \in Geometries
  /\ \E rq \in Requests :
       /\ islands = rq.islands
       /\ coverage_profile = rq.coverage_profile
  /\ corridor_width \in CorridorWidths
  /\ pc = "prepare"
  /\ ilot_specs = <<>>
  /\ optimization_space = EmptyRegion
  /\ population = <<>>
  /\ generation = -1
  /\ optimization_results = <<>>
  /\ raised = {}
  /\ response = NoResponse

\* lines 50-65: parse the specifications, prepare the space, fall back
Prepare ==
  /\ pc = "prepare"
  /\ ilot_specs' = _parse_ilot_specifications(islands)
  /\ optimization_space' = working_space(geometry)
  /\ pc' = "genetic"
  /\ UNCHANGED <<geometry, islands, coverage_profile, corridor_width, population,
                 generation, optimization_results, raised, response>>

\* the strategy at pc ends in an exception: nothing is appended, the loop goes on
fail_strategy ==
  /\ raised' = raised \cup {pc}
  /\ pc' = next_algorithm(pc)
  /\ population' = <<>>
  /\ generation' = -1
  /\ UNCHANGED <<geometry, islands, coverage_profile, corridor_width, ilot_specs,
                 optimization_space, optimization_results, response>>

\* the strategy at pc returns result: lines 77-79
append_result(result) ==
  /\ optimization_results' =
       Append(optimization_results, [result EXCEPT !.algorithm = pc])
  /\ pc' = next_algorithm(pc)
  /\ population' = <<>>
  /\ generation' = -1
  /\ UNCHANGED <<geometry, islands, coverage_profile, corridor_width, ilot_specs,
                 optimization_space, raised, response>>

\* an exception out of the geometry library or the numeric code of a strategy
StrategyRaises ==
  /\ pc \in {algorithm_names[k] : k \in 1..Len(algorithm_names)}
  /\ fail_strategy

\* _genetic_algorithm, lines 186-201: the initial population
GeneticPopulation ==
  /\ pc = "genetic" /\ generation = -1
  /\ IF ilot_specs = <<>> \/ mean_area(ilot_specs) = 0
     THEN fail_strategy
     ELSE /\ population' \in
               [1..PopulationSize ->
                  _generate_random_layout(optimization_space, ilot_specs,
                    num_ilots_target(optimization_space, ilot_specs, coverage_profile))]
          /\ generation' = 0
          /\ UNCHANGED <<geometry, islands, coverage_profile, corridor_width, pc,
                         ilot_specs, optimization_space, optimization_results,
                         raised, response>>

population_fitness(pop) ==
  [k \in 1..Len(pop) |->
     _evaluate_layout_fitness(pop[k], optimization_space, coverage_profile, geometry)]

\* _genetic_algorithm, lines 204-233: one generation
GeneticGeneration ==
  /\ pc = "genetic" /\ generation >= 0 /\ generation < Generations
  /\ IF Len(population) < tournament_size
     THEN fail_strategy
     ELSE LET fitness_scores == population_fitness(population)
              elite_size == PopulationSize \div elite_divisor
              order == sorted_indices(fitness_scores)
              elite == [k \in 1..elite_size |-> population[order[k]]]
              candidates == offspring_of(population, fitness_scores, optimization_space)
          IN /\ \E children \in [1..(PopulationSize - elite_size) -> candidates] :
                  population' = elite \o children
             /\ generation' = generation + 1
             /\ UNCHANGED <<geometry, islands, coverage_profile, corridor_width, pc,
                            ilot_specs, optimization_space, optimization_results,
                            raised, response>>

\* _genetic_algorithm, lines 235-246: the best individual is the result
GeneticReturn ==
  /\ pc = "genetic" /\ generation = Generations
  /\ LET best_layout == population[argmax(population_fitness(population))]
     IN append_result(strategy_result(best_layout, layout_area(best_layout),
                                      optimization_space, geometry))

GridBased ==
  /\ pc = "grid_based"
  /\ IF ilot_specs = <<>>
     THEN fail_strategy
     ELSE append_result(_grid_based_placement(optimization_space, ilot_specs,
                          coverage_profile, geometry, corridor_width))

ForceDirected ==
  /\ pc = "force_directed"
  /\ IF ilot_specs = <<>> \/ mean_area(ilot_specs) = 0
     THEN fail_strategy
     ELSE \E initial_layout \in
               _generate_random_layout(optimization_space, ilot_specs,
                 num_ilots_target(optimization_space, ilot_specs, coverage_profile)) :
            LET optimized_layout ==
                  _apply_force_directed_optimization(initial_layout, optimization_space,
                                                     corridor_width)
            IN append_result(strategy_result(optimized_layout, layout_area(optimized_layout),
                                             optimization_space, geometry))

AccessibilityOptimized ==
  /\ pc = "accessibility_optimized"
  /\ IF ilot_specs = <<>>
     THEN fail_strategy
     ELSE append_result(_accessibility_optimized_placement(optimization_space, ilot_specs,
                          coverage_profile, geometry, corridor_width))

\* lines 85-104: the response
Select ==
  /\ pc = "select"
  /\ IF optimization_results = <<>>
     THEN response' = [success |-> FALSE, pending |-> FALSE]
     ELSE LET best_result == _select_best_layout(optimization_results, coverage_profile)
          IN response' =
               [success |-> TRUE, pending |-> FALSE,
                layout |-> _enhance_layout_intelligence(best_result.layout),
                optimization_stats |->
                  [algorithms_tried |-> Len(algorithm_names),
                   successful_algorithms |-> Len(optimization_results),
                   best_algorithm |-> best_result.algorithm,
                   coverage_achieved |-> best_result.coverage_achieved,
                   accessibility_score |-> best_result.accessibility_score]]
  /\ pc' = "done"
  /\ UNCHANGED <<geometry, islands, coverage_profile, corridor_width, ilot_specs,
                 optimization_space, population, generation, optimization_results,
                 raised>>

CorridorIdle ==
  /\ usable_area = EmptyPolygon
  /\ placed_islands = <<>>
  /\ cpc = "idle"
  /\ island_rows = <<>>
  /\ corridors = <<>>

\* the hole-free usable area with no first boundary vertex: no request yet
NoPlacementArea == [outer |-> EmptyPolygon, hole |-> EmptyPolygon, first |-> <<0, 0>>]

\* no layout has been handed back
NoLayout == [returned |-> FALSE, failed |-> FALSE, islands |-> <<>>]

PlacerIdle ==
  /\ placement_area = NoPlacementArea
  /\ islands_to_place = <<>>
  /\ strategy = "idle"
  /\ strategy_outcomes = <<>>
  /\ best_placement = <<>>
  /\ best_coverage = 0
  /\ final_layout = NoLayout

\* the production engine has received no optimizer result
NoLayoutResult == [success |-> FALSE, layout |-> [islands |-> <<>>]]

NoCorridorResult == [success |-> FALSE, corridors |-> <<>>, circulation_graph |-> {}]

NoQaResults == [accessibility_compliant |-> TRUE, building_code_compliant |-> TRUE,
                geometric_validity |-> TRUE, warnings |-> <<>>, errors |-> <<>>]

NoProductionResponse == [returned |-> FALSE, success |-> FALSE, islands |-> <<>>,
                         corridors |-> <<>>, quality_assurance |-> NoQaResults]

ProductionIdle ==
  /\ layout_result = NoLayoutResult
  /\ corridor_result = NoCorridorResult
  /\ qa_results = NoQaResults
  /\ production_pc = "idle"
  /\ production_response = NoProductionResponse

SizesIdle ==
  /\ optimizer = "standard"
  /\ coverage_keyword = "medium"
  /\ coverage = 0
  /\ floor_area = 0
  /\ island_dimensions = <<>>
  /\ target_island_area = 0
  /\ sized_islands = <<>>
  /\ generated_area = 0
  /\ sizes_pc = "idle"
  /\ while_turns = 0

\* no island has been categorised
NoCategorisation == [width |-> 0, height |-> 0, parsed |-> "", categorized |-> ""]

CategoriesIdle == categorisation = NoCategorisation

\* no geometry has been prepared
NoPreparation == [processor |-> "", zones |-> <<>>, parts |-> <<>>, usable_area |-> <<>>,
                  rooms |-> <<>>, done |-> FALSE]

PreparerIdle == preparation = NoPreparation

\* no fast placement has been asked for
NoFastLayout == [usable_area |-> <<>>, to_place |-> <<>>, placed |-> <<>>,
                 occupied |-> {}, next |-> 0, returned |-> FALSE]

FastIdle == fast_layout = NoFastLayout

Init ==
  /\ EngineInit /\ CorridorIdle /\ PlacerIdle /\ ProductionIdle /\ SizesIdle
  /\ CategoriesIdle /\ PreparerIdle /\ FastIdle

Next ==
  \/ Prepare /\ UNCHANGED <<corridor_vars, placer_vars, production_vars, sizes_vars, category_vars, preparer_vars, fast_vars>>
  \/ GeneticPopulation /\ UNCHANGED <<corridor_vars, placer_vars, production_vars, sizes_vars, category_vars, preparer_vars, fast_vars>>
  \/ GeneticGeneration /\ UNCHANGED <<corridor_vars, placer_vars, production_vars, sizes_vars, category_vars, preparer_vars, fast_vars>>
  \/ GeneticReturn /\ UNCHANGED <<corridor_vars, placer_vars, production_vars, sizes_vars, category_vars, preparer_vars, fast_vars>>
  \/ GridBased /\ UNCHANGED <<corridor_vars, placer_vars, production_vars, sizes_vars, category_vars, preparer_vars, fast_vars>>
  \/ ForceDirected /\ UNCHANGED <<corridor_vars, placer_vars, production_vars, sizes_vars, category_vars, preparer_vars, fast_vars>>
  \/ AccessibilityOptimized /\ UNCHANGED <<corridor_vars, placer_vars, production_vars, sizes_vars, category_vars, preparer_vars, fast_vars>>
  \/ StrategyRaises /\ UNCHANGED <<corridor_vars, placer_vars, production_vars, sizes_vars, category_vars, preparer_vars, fast_vars>>
  \/ Select /\ UNCHANGED <<corridor_vars, placer_vars, production_vars, sizes_vars, category_vars, preparer_vars, fast_vars>>

Spec == Init /\ [][Next]_vars

(***************************************************************************)
(* Corridor synthesis: IntelligentIlotOptimizer (Backup/layout)            *)
(*                                                                         *)
(* The layout is a list of island boxes; island and row numbers are the    *)
(* 0-based indices of the code, so island k is placed_islands[k + 1].      *)
(***************************************************************************)
\* y_tolerance = 2.0 of _identify_island_rows
y_tolerance == 200

\* y_separation >= 2.0 of _are_rows_facing
facing_separation == 200

\* distance < 15.0 of _generate_mst_corridors
max_connection_distance == 1500

\* polygon.centroid of a box
centroid(b) == <<(b.x1 + b.x2) \div 2, (b.y1 + b.y2) \div 2>>

\* shapely box(minx, miny, maxx, maxy): the rectangle between the corners,
\* whichever order they come in
shapely_box(xa, ya, xb, yb) == box(Min(xa, xb), Min(ya, yb), Max(xa, xb), Max(ya, yb))

\* island_centers.sort(key=y): island numbers by centroid y, stable
centers_by_y(layout) ==
  LET n == Len(layout)
      cy(i) == centroid(layout[i + 1])[2]
      before(j, i) == cy(j) < cy(i) \/ (cy(j) = cy(i) /\ j < i)
  IN [r \in 1..n |->
        CHOOSE i \in 0..(n - 1) : Cardinality({j \in 0..(n - 1) : before(j, i)}) = r - 1]

\* the loop of _identify_island_rows over the sorted centres
RECURSIVE group_rows(_, _, _, _, _)
group_rows(layout, order, k, current_row, rows) ==
  LET closed == IF Len(current_row) >= 2 THEN Append(rows, current_row) ELSE rows
  IN IF k > Len(order) THEN closed
     ELSE LET y == centroid(layout[order[k] + 1])[2]
              last_y == centroid(layout[current_row[Len(current_row)] + 1])[2]
          IN IF Abs(y - last_y) <= y_tolerance
             THEN group_rows(layout, order, k + 1, Append(current_row, order[k]), rows)
             ELSE group_rows(layout, order, k + 1, <<order[k]>>, closed)

\* the same loop comparing with the first island of the current row instead
\* of the previous island
RECURSIVE group_rows_from_first(_, _, _, _, _)
group_rows_from_first(layout, order, k, current_row, rows) ==
  LET closed == IF Len(current_row) >= 2 THEN Append(rows, current_row) ELSE rows
  IN IF k > Len(order) THEN closed
     ELSE LET y == centroid(layout[order[k] + 1])[2]
              first_y == centroid(layout[current_row[1] + 1])[2]
          IN IF Abs(y - first_y) <= y_tolerance
             THEN group_rows_from_first(layout, order, k + 1, Append(current_row, order[k]),
                                        rows)
             ELSE group_rows_from_first(layout, order, k + 1, <<order[k]>>, closed)

rows_from_first_island(layout) ==
  IF layout = <<>> THEN <<>>
  ELSE LET order == centers_by_y(layout)
       IN group_rows_from_first(layout, order, 2, <<order[1]>>, <<>>)

_identify_island_rows(layout) ==
  IF layout = <<>> THEN <<>>
  ELSE LET order == centers_by_y(layout)
       IN group_rows(layout, order, 2, <<order[1]>>, <<>>)

SetMin(S) == CHOOSE v \in S : \A w \in S : v <= w

SetMax(S) == CHOOSE v \in S : \A w \in S : v >= w

\* min(island.bounds[0]), min(island.bounds[1]), max(island.bounds[2]) and
\* max(island.bounds[3]) over the islands of a row
row_bounds(layout, row) ==
  box(SetMin({layout[row[k] + 1].x1 : k \in 1..Len(row)}),
      SetMin({layout[row[k] + 1].y1 : k \in 1..Len(row)}),
      SetMax({layout[row[k] + 1].x2 : k \in 1..Len(row)}),
      SetMax({layout[row[k] + 1].y2 : k \in 1..Len(row)}))

\* |avg_y2 - avg_y1| >= 2.0 and x_overlap > 0, the averages compared exactly
_are_rows_facing(layout, row1, row2) ==
  LET sum_y(row) == SumSeq([k \in 1..Len(row) |-> centroid(layout[row[k] + 1])[2]])
      b1 == row_bounds(layout, row1)
      b2 == row_bounds(layout, row2)
      x_overlap == Min(b1.x2, b2.x2) - Max(b1.x1, b2.x1)
  IN /\ Abs(sum_y(row2) * Len(row1) - sum_y(row1) * Len(row2))
          >= facing_separation * Len(row1) * Len(row2)
     /\ x_overlap > 0

\* a corridor of exactly the configured width laid along the first row
\* instead of over the whole gap between the rows
corridor_of_fixed_width(layout, row1, row2, usable, cw) ==
  LET b1 == row_bounds(layout, row1)
      b2 == row_bounds(layout, row2)
  IN intersection(box(Max(b1.x1, b2.x1), b1.y2, Min(b1.x2, b2.x2), b1.y2 + cw), usable)

\* the rectangle of _create_corridor_between_rows; EmptyPolygon stands for None
_create_corridor_between_rows(layout, row1, row2, usable, cw) ==
  LET b1 == row_bounds(layout, row1)
      b2 == row_bounds(layout, row2)
      corridor_y1 == IF b1.y2 < b2.y1 THEN b1.y2 ELSE b2.y2
      corridor_y2 == IF b1.y2 < b2.y1 THEN b2.y1 ELSE b1.y1
      corridor_x1 == Max(b1.x1, b2.x1)
      corridor_x2 == Min(b1.x2, b2.x2)
      corridor_rect == shapely_box(corridor_x1, corridor_y1, corridor_x2, corridor_y2)
      corridor == intersection(corridor_rect, usable)
      center_x == (corridor.x1 + corridor.x2) \div 2
      center_y == (corridor.y1 + corridor.y2) \div 2
      half_width == cw \div 2
      expanded_rect ==
        IF corridor.x2 - corridor.x1 < cw
        THEN box(center_x - half_width, corridor.y1, center_x + half_width, corridor.y2)
        ELSE box(corridor.x1, center_y - half_width, corridor.x2, center_y + half_width)
  IN IF corridor_x2 <= corridor_x1 \/ is_empty(corridor) THEN EmptyPolygon
     ELSE IF Min(corridor.x2 - corridor.x1, corridor.y2 - corridor.y1) < cw
          THEN intersection(expanded_rect, usable)
          ELSE corridor

\* a corridor geometry: a rectangle, or a line between two centres buffered by
\* half the corridor width, clipped to the usable area, minus two islands
rect_geometry(r) ==
  [shape |-> "rect", rect |-> r, p1 |-> <<0, 0>>, p2 |-> <<0, 0>>, half_width |-> 0,
   clip |-> EmptyPolygon, minus |-> <<>>]

line_geometry(p1, p2, half_width, clip, minus) ==
  [shape |-> "line", rect |-> EmptyPolygon, p1 |-> p1, p2 |-> p2,
   half_width |-> half_width, clip |-> clip, minus |-> minus]

\* Side of the sampling cells used to measure a buffered line, in cm.  Island
\* and usable area coordinates are multiples of it, so that no cell centre
\* lies on a boundary.
SampleCell == 20

\* centres of the sampling cells that lie in a buffered-line geometry, in
\* units of SampleCell / 2
line_samples(c) ==
  LET u == SampleCell \div 2
      ax == c.p1[1] \div u
      ay == c.p1[2] \div u
      bx == c.p2[1] \div u
      by == c.p2[2] \div u
      r == c.half_width \div u
      dx == bx - ax
      dy == by - ay
      odd(lo, hi) == {v \in lo..hi : v % 2 = 1}
      in_box(px, py, b) ==
        /\ b.x1 \div u < px /\ px < b.x2 \div u
        /\ b.y1 \div u < py /\ py < b.y2 \div u
      in_buffer(px, py) ==
        LET along == (px - ax) * dx + (py - ay) * dy
            cross == (px - ax) * dy - (py - ay) * dx
        IN IF along <= 0
           THEN (px - ax) * (px - ax) + (py - ay) * (py - ay) < r * r
           ELSE IF along >= dx * dx + dy * dy
           THEN (px - bx) * (px - bx) + (py - by) * (py - by) < r * r
           ELSE cross * cross < r * r * (dx * dx + dy * dy)
  IN {q \in odd(Min(ax, bx) - r, Max(ax, bx) + r) \X odd(Min(ay, by) - r, Max(ay, by) + r) :
        /\ in_buffer(q[1], q[2])
        /\ in_box(q[1], q[2], c.clip)
        /\ \A k \in 1..Len(c.minus) : ~in_box(q[1], q[2], c.minus[k])}

geometry_is_empty(c) ==
  IF c.shape = "rect" THEN is_empty(c.rect) ELSE line_samples(c) = {}

geometry_area(c) ==
  IF c.shape = "rect" THEN area(c.rect)
  ELSE SampleCell * SampleCell * Cardinality(line_samples(c))

\* the corridor dictionary; via is not a key of the code: it records which
\* step built the corridor, i.e. whether connects holds row or island numbers
corridor_entry(geom, cw, i, j, via) ==
  [geometry |-> geom, area |-> geometry_area(geom), width |-> cw,
   connects |-> <<i, j>>, via |-> via]

_create_simple_corridor(island1, island2, usable, cw) ==
  line_geometry(centroid(island1), centroid(island2), cw \div 2, usable, <<island1, island2>>)

_connection_exists(i, j, existing_corridors) ==
  \E k \in 1..Len(existing_corridors) :
    LET connects == {existing_corridors[k].connects[1], existing_corridors[k].connects[2]}
    IN i \in connects /\ j \in connects

(***************************************************************************)
(* _generate_mst_corridors: networkx minimum_spanning_tree (Kruskal)       *)
(***************************************************************************)
\* G.edges(): pairs i < j of islands whose centres are closer than 15 m
graph_edges(layout) ==
  {e \in (0..(Len(layout) - 1)) \X (0..(Len(layout) - 1)) :
     /\ e[1] < e[2]
     /\ center_distance2(centroid(layout[e[1] + 1]), centroid(layout[e[2] + 1]))
          < max_connection_distance * max_connection_distance}

\* the same list with equal weights in the opposite order: the higher island
\* numbers first
sorted_edges_ties_reversed(layout) ==
  LET E == graph_edges(layout)
      w(e) == center_distance2(centroid(layout[e[1] + 1]), centroid(layout[e[2] + 1]))
      before(f, e) ==
        \/ w(f) < w(e)
        \/ w(f) = w(e) /\ (f[1] > e[1] \/ (f[1] = e[1] /\ f[2] > e[2]))
  IN [r \in 1..Cardinality(E) |->
        CHOOSE e \in E : Cardinality({f \in E : before(f, e)}) = r - 1]

\* sorted(edges, key=weight): stable, so equal weights keep the order of G.edges()
sorted_edges(layout) ==
  LET E == graph_edges(layout)
      w(e) == center_distance2(centroid(layout[e[1] + 1]), centroid(layout[e[2] + 1]))
      before(f, e) ==
        \/ w(f) < w(e)
        \/ w(f) = w(e) /\ (f[1] < e[1] \/ (f[1] = e[1] /\ f[2] < e[2]))
  IN [r \in 1..Cardinality(E) |->
        CHOOSE e \in E : Cardinality({f \in E : before(f, e)}) = r - 1]

\* Kruskal's loop: comp maps every island to its component; the result is the
\* list of accepted edges in the order of acceptance
RECURSIVE kruskal(_, _, _, _)
kruskal(edges, k, comp, accepted) ==
  IF k > Len(edges) THEN accepted
  ELSE LET u == edges[k][1]
           v == edges[k][2]
       IN IF comp[u] = comp[v]
          THEN kruskal(edges, k + 1, comp, accepted)
          ELSE kruskal(edges, k + 1,
                       [n \in DOMAIN comp |-> IF comp[n] = comp[v] THEN comp[u] ELSE comp[n]],
                       Append(accepted, edges[k]))

\* mst.edges(): by first endpoint, then in the order the tree received them
mst_edges(layout) ==
  LET n == Len(layout)
      accepted == kruskal(sorted_edges(layout), 1, [i \in 0..(n - 1) |-> i], <<>>)
      pos(e) == CHOOSE k \in 1..Len(accepted) : accepted[k] = e
      E == {accepted[k] : k \in 1..Len(accepted)}
      before(f, e) == f[1] < e[1] \/ (f[1] = e[1] /\ pos(f) < pos(e))
  IN [r \in 1..Len(accepted) |->
        CHOOSE e \in E : Cardinality({f \in E : before(f, e)}) = r - 1]

RECURSIVE mst_corridors(_, _, _, _, _, _, _)
mst_corridors(layout, edges, k, usable, cw, existing_corridors, additional_corridors) ==
  IF k > Len(edges) THEN additional_corridors
  ELSE LET i == edges[k][1]
           j == edges[k][2]
           corridor == _create_simple_corridor(layout[i + 1], layout[j + 1], usable, cw)
       IN IF ~_connection_exists(i, j, existing_corridors) /\ ~geometry_is_empty(corridor)
          THEN mst_corridors(layout, edges, k + 1, usable, cw, existing_corridors,
                             Append(additional_corridors,
                                    corridor_entry(corridor, cw, i, j, "mst")))
          ELSE mst_corridors(layout, edges, k + 1, usable, cw, existing_corridors,
                             additional_corridors)

_generate_mst_corridors(layout, usable, cw, existing_corridors) ==
  IF Len(layout) < 2 \/ graph_edges(layout) = {} THEN <<>>
  ELSE mst_corridors(layout, mst_edges(layout), 1, usable, cw, existing_corridors, <<>>)

(***************************************************************************)
(* _generate_mandatory_corridor_network                                    *)
(***************************************************************************)
\* the double loop over the row pairs i < j, pair number k in loop order
RECURSIVE facing_corridors(_, _, _, _, _, _)
facing_corridors(layout, rows, pairs, k, usable, cw) ==
  IF k > Len(pairs) THEN <<>>
  ELSE LET i == pairs[k][1]
           j == pairs[k][2]
           corridor == _create_corridor_between_rows(layout, rows[i + 1], rows[j + 1],
                                                     usable, cw)
           rest == facing_corridors(layout, rows, pairs, k + 1, usable, cw)
       IN IF _are_rows_facing(layout, rows[i + 1], rows[j + 1]) /\ ~is_empty(corridor)
          THEN <<corridor_entry(rect_geometry(corridor), cw, i, j, "rows")>> \o rest
          ELSE rest

\* row pairs (i, j), i < j, in the order of the nested loops
row_pairs(n) ==
  LET P == {p \in (0..(n - 1)) \X (0..(n - 1)) : p[1] < p[2]}
      before(q, p) == q[1] < p[1] \/ (q[1] = p[1] /\ q[2] < p[2])
  IN [r \in 1..Cardinality(P) |->
        CHOOSE p \in P : Cardinality({q \in P : before(q, p)}) = r - 1]

_generate_mandatory_corridor_network(usable, layout, cw) ==
  IF Len(layout) < 2 THEN <<>>
  ELSE LET rows == _identify_island_rows(layout)
           facing == facing_corridors(layout, rows, row_pairs(Len(rows)), 1, usable, cw)
       IN IF Len(facing) < Len(rows) - 1
          THEN facing \o _generate_mst_corridors(layout, usable, cw, facing)
          ELSE facing

(***************************************************************************)
(* Corridor synthesis as a state machine: the layout handed to             *)
(* IntelligentIlotOptimizer.optimize_intelligent_layout's corridor step    *)
(***************************************************************************)
\* the usable area of the corridor layouts: a 16 m x 12 m room
Room == box(0, 0, 1600, 1200)

\* a 2 m x 2 m island with its lower left corner at (x, y)
island_at(x, y) == box(x, y, x + 200, y + 200)

LatticeX == {200, 600, 1000}

LatticeY == {200, 440, 800}

LatticeIslands == {island_at(x, y) : x \in LatticeX, y \in LatticeY}

\* largest number of islands in a layout drawn from the lattice
MaxIslands == 3

LatticeLayouts ==
  UNION {{l \in [1..n -> LatticeIslands] : \A i, j \in 1..n : i # j => l[i] # l[j]} :
           n \in 0..MaxIslands}

\* two single islands facing each other: (2,2)-(4,4) and (2,8)-(4,10)
TwoFacingIslands == <<box(200, 200, 400, 400), box(200, 800, 400, 1000)>>

\* five scattered islands, no two of them in one row
FiveScattered ==
  <<island_at(0, 0), island_at(800, 250), island_at(200, 500), island_at(1200, 750),
    island_at(600, 1000)>>

\* two rows of two islands facing each other
TwoFacingRows ==
  <<island_at(200, 200), island_at(600, 200), island_at(200, 800), island_at(600, 800)>>

\* two rows of two islands with no common x-range
TwoApartRows ==
  <<island_at(0, 200), island_at(400, 200), island_at(1000, 800), island_at(1400, 800)>>

\* three rows: the first two face each other, the third (two touching
\* islands) shares no x-range with them
ThreeRows ==
  <<island_at(200, 0), island_at(600, 0), island_at(200, 500), island_at(600, 500),
    island_at(1200, 1000), island_at(1400, 1000)>>

\* the same three rows with the far row listed first, its islands 2 m apart
FarRowFirst ==
  <<island_at(1000, 1000), island_at(1400, 1000), island_at(200, 0), island_at(600, 0),
    island_at(200, 500), island_at(600, 500)>>

\* three islands each 2 m above the one before, and one island far above
ChainedRow ==
  <<island_at(0, 0), island_at(400, 200), island_at(800, 400), island_at(1200, 1000)>>

ScenarioLayouts ==
  {TwoFacingIslands, FiveScattered, TwoFacingRows, TwoApartRows, ThreeRows, FarRowFirst,
   ChainedRow}

EngineIdle ==
  /\ geometry = NoGeometry
  /\ islands = <<>>
  /\ coverage_profile = 0
  /\ pc = "idle"
  /\ ilot_specs = <<>>
  /\ optimization_space = EmptyRegion
  /\ population = <<>>
  /\ generation = -1
  /\ optimization_results = <<>>
  /\ raised = {}
  /\ response = NoResponse

CorridorInit ==
  /\ EngineIdle
  /\ PlacerIdle
  /\ ProductionIdle
  /\ SizesIdle
  /\ CategoriesIdle
  /\ PreparerIdle
  /\ FastIdle
  /\ corridor_width \in CorridorWidths
  /\ \/ usable_area = Room /\ placed_islands \in LatticeLayouts \cup ScenarioLayouts
     \/ usable_area = EmptyPolygon /\ placed_islands = <<>>
  /\ cpc = "start"
  /\ island_rows = <<>>
  /\ corridors = <<>>

\* optimize_intelligent_layout, lines 30-31: nothing is done on an empty usable area
EmptyUsableArea ==
  /\ cpc = "start"
  /\ is_empty(usable_area)
  /\ corridors' = <<>>
  /\ cpc' = "done"
  /\ UNCHANGED <<usable_area, placed_islands, island_rows>>

\* optimize_intelligent_layout, lines 43-45: the corridor network of the layout
GenerateMandatoryCorridorNetwork ==
  /\ cpc = "start"
  /\ ~is_empty(usable_area)
  /\ island_rows' = (IF Len(placed_islands) < 2 THEN <<>>
                     ELSE _identify_island_rows(placed_islands))
  /\ corridors' = _generate_mandatory_corridor_network(usable_area, placed_islands,
                                                       corridor_width)
  /\ cpc' = "done"
  /\ UNCHANGED <<usable_area, placed_islands>>

CorridorNext ==
  \/ EmptyUsableArea /\ UNCHANGED <<engine_vars, placer_vars, production_vars, sizes_vars, category_vars, preparer_vars, fast_vars>>
  \/ GenerateMandatoryCorridorNetwork /\ UNCHANGED <<engine_vars, placer_vars, production_vars, sizes_vars, category_vars, preparer_vars, fast_vars>>

SpecCorridor == CorridorInit /\ [][CorridorNext]_vars

(***************************************************************************)
(* LayoutOptimizer (src/layout_optimizer.py): the three placement          *)
(* strategies and the loop of _place_islands_optimized that keeps the best *)
(* of them.  The usable area is a box with at most one rectangular hole;   *)
(* first is the first vertex of its exterior ring.                         *)
(***************************************************************************)
min_island_spacing == 50

grid_size == 50

\* the offsets from the boundary tried by _place_edge_following
edge_offsets == <<50, 100, 150, 200>>

\* the reach of the wall bonus of _calculate_position_score
wall_bonus_reach == 100

\* the step of range(0, len(boundary_coords) - 1, 5)
boundary_step == 5

has_hole(pa) == ~is_empty(pa.hole)

\* usable_area.area
placement_area_area(pa) == area(pa.outer) - area(pa.hole)

\* usable_area.centroid
placement_area_centroid(pa) ==
  LET o == centroid(pa.outer)
      h == centroid(pa.hole)
      ao == area(pa.outer) \div 100
      ah == area(pa.hole) \div 100
  IN <<(ao * o[1] - ah * h[1]) \div (ao - ah), (ao * o[2] - ah * h[2]) \div (ao - ah)>>

\* candidate.within(usable_area)
within_placement_area(candidate, pa) ==
  /\ within(candidate, pa.outer)
  /\ area(intersection(candidate, pa.hole)) = 0

\* candidate.distance(usable_area.boundary) for a candidate within the area
boundary_distance(candidate, pa) ==
  LET o == pa.outer
      to_outer == Min(Min(candidate.x1 - o.x1, o.x2 - candidate.x2),
                      Min(candidate.y1 - o.y1, o.y2 - candidate.y2))
  IN IF has_hole(pa) THEN Min(to_outer, Sqrt(distance2(candidate, pa.hole)))
     ELSE to_outer

\* candidate.intersects(occupied_space): occupied_space is the union of the
\* placed islands buffered by min_island_spacing
intersects_occupied(candidate, placed) ==
  \E k \in 1..Len(placed) :
    distance2(candidate, placed[k]) <= min_island_spacing * min_island_spacing

\* _calculate_position_score, per-mille
_calculate_position_score(candidate, pa, existing_islands) ==
  LET c == centroid(candidate)
      distance_from_center == Sqrt(center_distance2(c, placement_area_centroid(pa)))
      min_distance ==
        SetMin({Sqrt(center_distance2(c, centroid(existing_islands[k]))) :
                  k \in 1..Len(existing_islands)})
      bd == boundary_distance(candidate, pa)
  IN distance_from_center
     + (IF existing_islands # <<>> THEN 2 * min_distance ELSE 0)
     + (IF bd < wall_bonus_reach THEN 3 * (wall_bonus_reach - bd) ELSE 0)

\* a candidate position of one island with its place in the iteration order
scored(candidate, rank, pa, placed) ==
  [geom |-> candidate, rank |-> rank,
   score |-> _calculate_position_score(candidate, pa, placed)]

acceptable(candidate, pa, placed) ==
  within_placement_area(candidate, pa) /\ ~intersects_occupied(candidate, placed)

\* the candidates that can end up as best_position: 'score > best_score'
\* keeps a best score, in iteration order the first of them
best_scores(C) == LET top == SetMax({c.score : c \in C}) IN {c \in C : c.score = top}

best_position(C) ==
  IF C = {} THEN EmptyPolygon
  ELSE LET B == best_scores(C)
           r == SetMin({c.rank : c \in B})
       IN (CHOOSE c \in B : c.rank = r).geom

\* [(width, height), (height, width)]
orientations(dims) == <<dims, <<dims[2], dims[1]>>>>

\* islands_to_place.sort(key=area, reverse=True), stable
sort_largest_first(dims_list) ==
  LET n == Len(dims_list)
      a(i) == dims_list[i][1] * dims_list[i][2]
      before(j, i) == a(j) > a(i) \/ (a(j) = a(i) /\ j < i)
  IN [r \in 1..n |->
        dims_list[CHOOSE i \in 1..n : Cardinality({j \in 1..n : before(j, i)}) = r - 1]]

\* the positions _place_grid_based walks over for one island: both
\* orientations, y then x in steps of grid_size from the lower left corner
grid_candidates(pa, dims, placed) ==
  LET o == pa.outer
      cand(k, ky, kx) ==
        LET d == orientations(dims)[k]
        IN box(o.x1 + kx * grid_size, o.y1 + ky * grid_size,
               o.x1 + kx * grid_size + d[1], o.y1 + ky * grid_size + d[2])
      steps == 0..((Max(o.x2 - o.x1, o.y2 - o.y1)) \div grid_size)
      walked == {t \in (1..2) \X steps \X steps :
                   /\ cand(t[1], t[2], t[3]).x2 <= o.x2
                   /\ cand(t[1], t[2], t[3]).y2 <= o.y2
                   /\ acceptable(cand(t[1], t[2], t[3]), pa, placed)}
  IN {scored(cand(t[1], t[2], t[3]), (t[1] * 100 + t[2]) * 100 + t[3], pa, placed) :
        t \in walked}

RECURSIVE place_grid_from(_, _, _)
place_grid_from(pa, todo, placed) ==
  IF todo = <<>> THEN placed
  ELSE LET best == best_position(grid_candidates(pa, Head(todo), placed))
       IN place_grid_from(pa, Tail(todo),
                          IF is_empty(best) THEN placed ELSE Append(placed, best))

_place_grid_based(pa, dims_list) == place_grid_from(pa, sort_largest_first(dims_list), <<>>)

\* the positions random.uniform can draw for an island, as quarters of the
\* range [min, max - size] of each axis
PlacerFractions == {<<0, 0>>, <<4, 0>>, <<2, 4>>}

\* attempts per island in _place_random_optimized (1000 in the code)
PlacerAttempts == 2

attempt_sets == {A \in SUBSET PlacerFractions : Cardinality(A) \in 1..PlacerAttempts}

\* the candidates of the attempts A for one island, both orientations each
random_candidates(pa, dims, placed, A) ==
  LET o == pa.outer
      x(f) == o.x1 + ((o.x2 - dims[1] - o.x1) * f[1]) \div 4
      y(f) == o.y1 + ((o.y2 - dims[2] - o.y1) * f[2]) \div 4
      cand(f, k) ==
        LET d == orientations(dims)[k]
        IN box(x(f), y(f), x(f) + d[1], y(f) + d[2])
      tried == {t \in A \X (1..2) :
                  /\ cand(t[1], t[2]).x2 <= o.x2
                  /\ cand(t[1], t[2]).y2 <= o.y2
                  /\ acceptable(cand(t[1], t[2]), pa, placed)}
  IN {[attempt |-> t[1]] @@ scored(cand(t[1], t[2]), t[2], pa, placed) : t \in tried}

\* the attempts come in any order: every best-scoring candidate that is the
\* first best one of its own attempt can be the best_position
random_best_positions(C) ==
  LET B == best_scores(C)
  IN {c.geom : c \in {b \in B : ~\E d \in B : d.attempt = b.attempt /\ d.rank < b.rank}}

RECURSIVE place_random_from(_, _, _)
place_random_from(pa, todo, placed) ==
  IF todo = <<>> THEN {placed}
  ELSE UNION {LET C == random_candidates(pa, Head(todo), placed, A)
              IN IF C = {} THEN place_random_from(pa, Tail(todo), placed)
                 ELSE UNION {place_random_from(pa, Tail(todo), Append(placed, g)) :
                               g \in random_best_positions(C)} :
                A \in attempt_sets}

\* the layouts _place_random_optimized can return
_place_random_optimized(pa, dims_list) == place_random_from(pa, dims_list, <<>>)

\* list(usable_area.boundary.coords) of a usable area without a hole: the
\* closed exterior ring, starting at its first vertex
boundary_coords(pa) ==
  LET o == pa.outer
      ring == <<<<o.x2, o.y1>>, <<o.x2, o.y2>>, <<o.x1, o.y2>>, <<o.x1, o.y1>>>>
      s == CHOOSE k \in 1..4 : ring[k] = pa.first
  IN [k \in 1..5 |-> ring[((s + k - 2) % 4) + 1]]

edge_candidates(pa, dims, placed) ==
  LET coords == boundary_coords(pa)
      sampled == {i \in 0..(Len(coords) - 2) : i % boundary_step = 0}
      cand(i, k, m) ==
        LET d == orientations(dims)[m]
            x == coords[i + 1][1] + edge_offsets[k]
            y == coords[i + 1][2] + edge_offsets[k]
        IN box(x, y, x + d[1], y + d[2])
      tried == {t \in sampled \X (1..Len(edge_offsets)) \X (1..2) :
                  acceptable(cand(t[1], t[2], t[3]), pa, placed)}
  IN {scored(cand(t[1], t[2], t[3]), (t[1] * 10 + t[2]) * 10 + t[3], pa, placed) :
        t \in tried}

RECURSIVE place_edge_from(_, _, _)
place_edge_from(pa, todo, placed) ==
  IF todo = <<>> THEN placed
  ELSE LET best == best_position(edge_candidates(pa, Head(todo), placed))
       IN place_edge_from(pa, Tail(todo),
                          IF is_empty(best) THEN placed ELSE Append(placed, best))

\* _place_edge_following on a usable area without a hole
_place_edge_following(pa, dims_list) == place_edge_from(pa, dims_list, <<>>)

\* usable_area.boundary.coords raises NotImplementedError when the boundary is
\* a MultiLineString (a polygon with a hole); hasattr only absorbs
\* AttributeError
boundary_coords_raises(pa) == has_hole(pa)

\* sum(island.area for island in result)
placed_area(result) == SumSeq([k \in 1..Len(result) |-> area(result[k])])

\* the usable areas handed to LayoutOptimizer: an 8 m x 6 m room, whole or
\* with a restricted zone cut out of its inside
PlacerRoom == box(0, 0, 800, 600)

PlacerHole == box(300, 200, 500, 400)

PlacementAreas ==
  {[outer |-> PlacerRoom, hole |-> EmptyPolygon, first |-> v] :
     v \in {<<800, 0>>, <<800, 600>>, <<0, 600>>, <<0, 0>>}}
  \cup {[outer |-> PlacerRoom, hole |-> PlacerHole, first |-> <<800, 0>>]}

\* the island size lists _generate_island_sizes hands over
IslandLists ==
  {<<>>, <<<<200, 200>>>>, <<<<300, 200>>>>, <<<<200, 200>>, <<200, 200>>>>,
   <<<<200, 200>>, <<300, 200>>>>}

PlacerInit ==
  /\ EngineIdle
  /\ corridor_width \in CorridorWidths
  /\ CorridorIdle
  /\ ProductionIdle
  /\ SizesIdle
  /\ CategoriesIdle
  /\ PreparerIdle
  /\ FastIdle
  /\ placement_area \in PlacementAreas
  /\ islands_to_place \in IslandLists
  /\ strategy = "start"
  /\ strategy_outcomes = <<>>
  /\ best_placement = <<>>
  /\ best_coverage = 0
  /\ final_layout = NoLayout

\* _place_islands_optimized, lines 82-83, and the return of optimize_layout
NothingToPlace ==
  /\ strategy = "start"
  /\ islands_to_place = <<>>
  /\ final_layout' = [returned |-> TRUE, failed |-> FALSE, islands |-> <<>>]
  /\ strategy' = "done"
  /\ UNCHANGED <<placement_area, islands_to_place, strategy_outcomes, best_placement,
                 best_coverage>>

\* lines 99-104: a strategy returned result
keep_best(name, result, then) ==
  /\ strategy_outcomes' = Append(strategy_outcomes, [strategy |-> name, islands |-> result])
  /\ IF placed_area(result) > best_coverage
     THEN best_coverage' = placed_area(result) /\ best_placement' = result
     ELSE UNCHANGED <<best_coverage, best_placement>>
  /\ strategy' = then
  /\ UNCHANGED <<placement_area, islands_to_place, final_layout>>

PlaceGridBased ==
  /\ strategy = "start"
  /\ islands_to_place # <<>>
  /\ keep_best("_place_grid_based", _place_grid_based(placement_area, islands_to_place),
               "_place_random_optimized")

PlaceRandomOptimized ==
  /\ strategy = "_place_random_optimized"
  /\ \E result \in _place_random_optimized(placement_area, islands_to_place) :
       keep_best("_place_random_optimized", result, "_place_edge_following")

\* the exception of line 197 leaves _place_islands_optimized and
\* optimize_layout; core_logic._optimize_layout answers it with an empty layout
PlaceEdgeFollowing ==
  /\ strategy = "_place_edge_following"
  /\ IF boundary_coords_raises(placement_area)
     THEN /\ final_layout' = [returned |-> TRUE, failed |-> TRUE, islands |-> <<>>]
          /\ strategy' = "done"
          /\ UNCHANGED <<placement_area, islands_to_place, strategy_outcomes,
                         best_placement, best_coverage>>
     ELSE keep_best("_place_edge_following",
                    _place_edge_following(placement_area, islands_to_place), "return")

\* lines 106-107 and optimize_layout, lines 33-45
ReturnBestResult ==
  /\ strategy = "return"
  /\ final_layout' = [returned |-> TRUE, failed |-> FALSE, islands |-> best_placement]
  /\ strategy' = "done"
  /\ UNCHANGED <<placement_area, islands_to_place, strategy_outcomes, best_placement,
                 best_coverage>>

PlacerNext ==
  \/ NothingToPlace /\ UNCHANGED <<engine_vars, corridor_vars, production_vars, sizes_vars, category_vars, preparer_vars, fast_vars>>
  \/ PlaceGridBased /\ UNCHANGED <<engine_vars, corridor_vars, production_vars, sizes_vars, category_vars, preparer_vars, fast_vars>>
  \/ PlaceRandomOptimized /\ UNCHANGED <<engine_vars, corridor_vars, production_vars, sizes_vars, category_vars, preparer_vars, fast_vars>>
  \/ PlaceEdgeFollowing /\ UNCHANGED <<engine_vars, corridor_vars, production_vars, sizes_vars, category_vars, preparer_vars, fast_vars>>
  \/ ReturnBestResult /\ UNCHANGED <<engine_vars, corridor_vars, production_vars, sizes_vars, category_vars, preparer_vars, fast_vars>>

SpecPlacer == PlacerInit /\ [][PlacerNext]_vars

(***************************************************************************)
(* Claims about the placement engine (specification Spec)                  *)
(***************************************************************************)

\* C1: for every valid (non-empty) Usable Area U, every island of every
\* strategy's result and of the layout finally returned lies fully inside U,
\* where U = walls - restricted zones - entrance clearance buffers.
C1_IslandsInsideUsableArea ==
  LET U == _prepare_optimization_space(geometry)
      inside(layout) == \A k \in 1..Len(layout) : region_contains(U, layout[k].geometry)
  IN region_area(U) > 0 =>
       /\ \A r \in 1..Len(optimization_results) :
            inside(optimization_results[r].layout.islands)
       /\ (pc = "done" /\ response.success) => inside(response.layout.islands)

\* C2: in every layout returned by a placement strategy, the footprints of any
\* two distinct islands, each expanded by the minimum spacing, do not
\* intersect: the islands are more than twice the minimum spacing apart.
C2_SpacingBuffersDisjoint ==
  \A r \in 1..Len(optimization_results) :
    LET layout == optimization_results[r].layout.islands
    IN \A i, j \in 1..Len(layout) :
         i < j => distance2(layout[i].geometry, layout[j].geometry)
                    > (2 * min_clearance) * (2 * min_clearance)

\* C3: every island of every strategy's returned layout keeps at least the
\* entrance clearance (2.0 m) from every entrance, whichever strategy made it.
C3_EntranceClearanceKept ==
  \A r \in 1..Len(optimization_results) :
    LET layout == optimization_results[r].layout.islands
    IN \A k \in 1..Len(layout) :
         geometry.entrances.present =>
           distance2_point(layout[k].geometry, geometry.entrances)
             >= entrance_clearance * entrance_clearance

\* C4: the layout selection returns is one of the successful results, and no
\* successful result has a strictly higher composite score
\* 0.6 x coverage-match + 0.4 x accessibility, where coverage-match is
\* max(0, 1 - |achieved - target| / target).  Scores are compared after
\* multiplying by 5000 x target x (area of the space in dm^2).
C4_SelectionMaximisesComposite ==
  LET scorer(result) ==
        LET den == result.coverage_achieved.den \div 100
            num == result.coverage_achieved.num \div 100
            target == coverage_profile * den
        IN 3000 * Max(0, target - Abs(100 * num - target))
             + 2 * result.accessibility_score * target
  IN (pc = "done" /\ response.success) =>
       \E b \in 1..Len(optimization_results) :
         /\ optimization_results[b].algorithm = response.optimization_stats.best_algorithm
         /\ optimization_results[b].layout.islands = response.layout.islands
         /\ \A r \in 1..Len(optimization_results) :
              scorer(optimization_results[r]) <= scorer(optimization_results[b])

\* C5: when the Usable Area has zero area the request short-circuits: no
\* strategy places anything, and the result has no islands.
C5_EmptyUsableAreaShortCircuits ==
  region_area(_prepare_optimization_space(geometry)) = 0 =>
    /\ \A r \in 1..Len(optimization_results) :
         optimization_results[r].layout.islands = <<>>
    /\ (pc = "done" /\ response.success) => response.layout.islands = <<>>

(***************************************************************************)
(* Claims about corridor synthesis (specification SpecCorridor)            *)
(***************************************************************************)
\* the islands reachable from the islands of S along the links of E
RECURSIVE reachable(_, _)
reachable(S, E) ==
  LET T == S \cup {e[2] : e \in {f \in E : f[1] \in S}}
             \cup {e[1] : e \in {f \in E : f[2] \in S}}
  IN IF T = S THEN S ELSE reachable(T, E)

\* islands 0..n-1 are all joined by the links of E
connected(n, E) == n <= 1 \/ reachable({0}, E) = 0..(n - 1)

\* the links of the circulation graph: two islands of one row, an island of
\* each of two rows joined by a facing-row corridor, the two islands of an
\* MST corridor
circulation_links ==
  LET members(r) == {island_rows[r + 1][k] : k \in 1..Len(island_rows[r + 1])}
      in_row == UNION {members(r) \X members(r) : r \in 0..(Len(island_rows) - 1)}
      by_corridor(c) ==
        IF c.via = "rows" THEN members(c.connects[1]) \X members(c.connects[2])
        ELSE {<<c.connects[1], c.connects[2]>>}
  IN in_row \cup UNION {by_corridor(corridors[k]) : k \in 1..Len(corridors)}

\* C6: the corridor list is empty only if the layout has fewer than 2 islands
\* or the usable area is empty.
C6_CorridorsUnlessTrivial ==
  (cpc = "done" /\ Len(placed_islands) >= 2 /\ ~is_empty(usable_area)) =>
    corridors # <<>>

\* C7: after corridor synthesis on a layout whose islands can all be joined by
\* links shorter than the maximum connection distance, the circulation graph
\* (row membership, facing-row corridors, MST corridors) is connected.
C7_CirculationConnected ==
  (cpc = "done" /\ connected(Len(placed_islands), graph_edges(placed_islands))) =>
    connected(Len(placed_islands), circulation_links)

\* C8: for n >= 2 islands with no row detected and all mutually within the
\* maximum connection distance, synthesis produces exactly n - 1 MST corridors
\* whose connects pairs form a spanning tree over the n islands.
C8_MstFallbackSpanningTree ==
  LET n == Len(placed_islands)
      all_pairs == {e \in (0..(n - 1)) \X (0..(n - 1)) : e[1] < e[2]}
  IN (cpc = "done" /\ n >= 2 /\ island_rows = <<>> /\ graph_edges(placed_islands) = all_pairs) =>
       /\ Len(corridors) = n - 1
       /\ \A k \in 1..Len(corridors) : corridors[k].via = "mst"
       /\ connected(n, {<<corridors[k].connects[1], corridors[k].connects[2]>> :
                          k \in 1..Len(corridors)})

C10_StrategyErrorNotFatal ==
  (strategy = "done" /\ \E k \in 1..Len(strategy_outcomes) :
                          strategy_outcomes[k].islands # <<>>) =>
    (~final_layout.failed /\ final_layout.islands # <<>>)

(***************************************************************************)
(* Claims about strategy failure in the placement engine (specification    *)
(* Spec)                                                                   *)
(***************************************************************************)
\* C11: a strategy that places zero islands is excluded from selection: no
\* candidate compared by the selection step has zero islands, and the layout
\* returned as the best one is never a zero-island layout.
C11_ZeroIslandResultExcluded ==
  /\ \A r \in 1..Len(optimization_results) :
       optimization_results[r].layout.islands # <<>>
  /\ (pc = "done" /\ response.success) => response.layout.islands # <<>>

\* C12: if no strategy produces a valid layout, the request returns an
\* explicit empty layout (islands = [], achieved coverage 0), not a failure
\* result.
C12_NoLayoutGivesEmptyLayout ==
  (pc = "done" /\ optimization_results = <<>>) =>
    /\ response.success
    /\ response.layout.islands = <<>>
    /\ response.optimization_stats.coverage_achieved.num = 0

\* ---------------------------------------------------------------------------
\* ProductionFloorPlanEngine (src/production_engine.py): phases 3 to 5 of
\* process_complete_floorplan.  Lengths in cm, areas in cm^2.
\* ---------------------------------------------------------------------------

min_corridor_width == 80
max_corridor_width == 300
max_corridor_length == 1500
min_corridor_area == 5000
qa_overlap_tolerance == 1000

\* the positions <<i, j>>, i < j <= n, in the order of the nested loops
RECURSIVE pairs_from(_, _, _)
pairs_from(i, j, n) ==
  IF i >= n THEN <<>>
  ELSE IF j > n THEN pairs_from(i + 1, i + 2, n)
  ELSE <<<<i, j>>>> \o pairs_from(i, j + 1, n)

\* the elements of a set of integers in increasing order
RECURSIVE ascending(_)
ascending(S) ==
  IF S = {} THEN <<>> ELSE <<SetMin(S)>> \o ascending(S \ {SetMin(S)})

centers_distance2(island1, island2) ==
  center_distance2(centroid(island1.geometry), centroid(island2.geometry))

\* _group_islands_for_corridors: every unprocessed island opens a group and
\* takes all unprocessed islands whose centre is closer than 15 m to its own
RECURSIVE group_from(_, _, _, _)
group_from(layout_islands, i, processed, groups) ==
  IF i > Len(layout_islands) THEN groups
  ELSE IF i \in processed THEN group_from(layout_islands, i + 1, processed, groups)
  ELSE LET members == {j \in (1..Len(layout_islands)) \ (processed \cup {i}) :
                         centers_distance2(layout_islands[i], layout_islands[j])
                           < max_corridor_length * max_corridor_length}
           group == <<i>> \o ascending(members)
       IN group_from(layout_islands, i + 1, processed \cup {i} \cup members,
                     IF Len(group) >= 2 THEN Append(groups, group) ELSE groups)

_group_islands_for_corridors(layout_islands) == group_from(layout_islands, 1, {}, <<>>)

NoCorridor == [present |-> FALSE, p1 |-> <<0, 0>>, p2 |-> <<0, 0>>, half_width |-> 0,
               area |-> 0]

\* area of LineString.buffer(half_width): the rectangle along the line and
\* the two round caps, which shapely draws with 16 segments per quarter
\* circle (3.1365 r^2)
buffer_area(p1, p2, half_width) ==
  IF half_width <= 0 THEN 0
  ELSE Sqrt(center_distance2(p1, p2)) * 2 * half_width
         + (31365 * half_width * half_width) \div 10000

\* _create_corridor_between_groups: the line between the two most distant
\* islands of the group (the first such pair of the nested loops), buffered
\* by half the width
_create_corridor_between_groups(layout_islands, island_group, width) ==
  LET pairs == pairs_from(1, 2, Len(island_group))
      d(k) == centers_distance2(layout_islands[island_group[pairs[k][1]]],
                                layout_islands[island_group[pairs[k][2]]])
      max_distance == Max(0, SetMax({d(k) : k \in 1..Len(pairs)}))
      first == SetMin({k \in 1..Len(pairs) : d(k) = max_distance})
      p1 == centroid(layout_islands[island_group[pairs[first][1]]].geometry)
      p2 == centroid(layout_islands[island_group[pairs[first][2]]].geometry)
  IN IF max_distance = 0 THEN NoCorridor
     ELSE [present |-> width > 0, p1 |-> p1, p2 |-> p2, half_width |-> width \div 2,
           area |-> buffer_area(p1, p2, width \div 2)]

\* _generate_corridor_network, the loop of lines 172-186
RECURSIVE corridors_from(_, _, _, _, _)
corridors_from(layout_islands, island_groups, g, width, made) ==
  IF g > Len(island_groups) THEN made
  ELSE LET corridor == _create_corridor_between_groups(layout_islands, island_groups[g],
                                                       width)
       IN corridors_from(layout_islands, island_groups, g + 1, width,
            IF corridor.present /\ corridor.area > min_corridor_area
            THEN Append(made, [id |-> Len(made),
                               geometry |-> corridor,
                               width |-> width,
                               area |-> corridor.area,
                               connected_islands |->
                                 [k \in 1..Len(island_groups[g]) |->
                                    layout_islands[island_groups[g][k]].id]])
            ELSE made)

\* _build_circulation_graph: an edge for every two islands of a corridor
_build_circulation_graph(made) ==
  UNION {{[from |-> made[c].connected_islands[pr[1]],
           to |-> made[c].connected_islands[pr[2]],
           corridor_id |-> made[c].id] :
            pr \in {q \in (1..Len(made[c].connected_islands))
                            \X (1..Len(made[c].connected_islands)) : q[1] < q[2]}} :
         c \in 1..Len(made)}

_generate_corridor_network(layout, width) ==
  IF layout.islands = <<>>
  THEN [success |-> TRUE, corridors |-> <<>>, circulation_graph |-> {}]
  ELSE LET made == corridors_from(layout.islands,
                                  _group_islands_for_corridors(layout.islands), 1,
                                  width, <<>>)
       IN [success |-> TRUE, corridors |-> made,
           circulation_graph |-> _build_circulation_graph(made)]

\* shapely's is_valid on the rectangles the strategies build
is_valid(g) == ~is_empty(g)

overlaps_beyond_tolerance(island1, island2) ==
  /\ intersects(island1.geometry, island2.geometry)
  /\ area(intersection(island1.geometry, island2.geometry)) > qa_overlap_tolerance

\* a warning for each of the corridors found too narrow
corridor_findings(narrow) ==
  [k \in 1..Len(narrow) |-> [kind |-> "corridor_width", subject |-> <<narrow[k].id>>]]

island_findings(layout_islands) ==
  LET invalid == SelectSeq(layout_islands, LAMBDA island : ~is_valid(island.geometry))
      pairs == pairs_from(1, 2, Len(layout_islands))
      overlapping == SelectSeq(pairs, LAMBDA pr :
                       overlaps_beyond_tolerance(layout_islands[pr[1]],
                                                 layout_islands[pr[2]]))
  IN [k \in 1..Len(invalid) |-> [kind |-> "invalid_geometry", subject |-> <<invalid[k].id>>]]
       \o [k \in 1..Len(overlapping) |->
             [kind |-> "overlap",
              subject |-> <<layout_islands[overlapping[k][1]].id,
                            layout_islands[overlapping[k][2]].id>>]]

warns_at_minimum_width(layout_islands, layout_corridors) ==
  LET warnings == corridor_findings(SelectSeq(layout_corridors,
                                      LAMBDA c : c.width <= min_corridor_width))
      errors == island_findings(layout_islands)
  IN [accessibility_compliant |-> warnings = <<>>,
      building_code_compliant |-> \A k \in 1..Len(errors) : errors[k].kind # "overlap",
      geometric_validity |-> \A k \in 1..Len(errors) : errors[k].kind # "invalid_geometry",
      warnings |-> warnings,
      errors |-> errors]

_perform_quality_assurance(layout_islands, layout_corridors) ==
  LET warnings == corridor_findings(SelectSeq(layout_corridors,
                                      LAMBDA c : c.width < min_corridor_width))
      errors == island_findings(layout_islands)
  IN [accessibility_compliant |-> warnings = <<>>,
      building_code_compliant |-> \A k \in 1..Len(errors) : errors[k].kind # "overlap",
      geometric_validity |-> \A k \in 1..Len(errors) : errors[k].kind # "invalid_geometry",
      warnings |-> warnings,
      errors |-> errors]

\* ---- the production engine as a state machine ----

\* corridor widths the engine is called with, cm: production_app.py hands
\* over float(data['corridor_width']) as it came
ReceivedWidths == {50, 80, 120, 500}

PositionsX == {0, 200, 2000}
PositionsY == {0, 320}

\* the islands of a layout, 2 m x 2 m, numbered in placement order from 0
RECURSIVE numbered(_, _)
numbered(boxes, k) ==
  IF k > Len(boxes) THEN <<>>
  ELSE <<[id |-> k - 1, geometry |-> boxes[k]]>> \o numbered(boxes, k + 1)

ProductionLayouts ==
  LET positions == {island_at(x, y) : x \in PositionsX, y \in PositionsY}
  IN {numbered(l, 1) :
        l \in UNION {{m \in [1..n -> positions] :
                        \A a, b \in 1..n : a # b => m[a] # m[b]} : n \in 0..MaxIslands}}

LayoutResults ==
  {NoLayoutResult} \cup {[success |-> TRUE, layout |-> [islands |-> l]] :
                           l \in ProductionLayouts}

ProductionInit ==
  /\ EngineIdle
  /\ CorridorIdle
  /\ PlacerIdle
  /\ SizesIdle
  /\ CategoriesIdle
  /\ PreparerIdle
  /\ FastIdle
  /\ corridor_width \in ReceivedWidths
  /\ layout_result \in LayoutResults
  /\ corridor_result = NoCorridorResult
  /\ qa_results = NoQaResults
  /\ production_pc = "layout"
  /\ production_response = NoProductionResponse

\* process_complete_floorplan, lines 74-75: the optimizer reported a failure
LayoutOptimizationFailed ==
  /\ production_pc = "layout"
  /\ ~layout_result.success
  /\ production_response' = [NoProductionResponse EXCEPT !.returned = TRUE]
  /\ production_pc' = "done"
  /\ UNCHANGED <<layout_result, corridor_result, qa_results>>

\* phase 4, lines 79-85
GenerateCorridorNetwork ==
  /\ production_pc = "layout"
  /\ layout_result.success
  /\ corridor_result' = _generate_corridor_network(layout_result.layout, corridor_width)
  /\ production_pc' = "qa"
  /\ UNCHANGED <<layout_result, qa_results, production_response>>

\* phases 5 and 6 and the return, lines 87-112
PerformQualityAssurance ==
  /\ production_pc = "qa"
  /\ LET layout_corridors == IF corridor_result.success THEN corridor_result.corridors
                             ELSE <<>>
         qa_result == _perform_quality_assurance(layout_result.layout.islands,
                                                 layout_corridors)
     IN /\ qa_results' = qa_result
        /\ production_response' = [returned |-> TRUE, success |-> TRUE,
                                   islands |-> layout_result.layout.islands,
                                   corridors |-> layout_corridors,
                                   quality_assurance |-> qa_result]
  /\ production_pc' = "done"
  /\ UNCHANGED <<layout_result, corridor_result>>

ProductionNext ==
  \/ LayoutOptimizationFailed
       /\ UNCHANGED <<engine_vars, corridor_vars, placer_vars, sizes_vars,
                    category_vars, preparer_vars, fast_vars>>
  \/ GenerateCorridorNetwork
       /\ UNCHANGED <<engine_vars, corridor_vars, placer_vars, sizes_vars,
                    category_vars, preparer_vars, fast_vars>>
  \/ PerformQualityAssurance
       /\ UNCHANGED <<engine_vars, corridor_vars, placer_vars, sizes_vars,
                    category_vars, preparer_vars, fast_vars>>

SpecProduction == ProductionInit /\ [][ProductionNext]_vars

\* C13: whatever corridor width the core receives, every corridor of the
\* output records a width within [0.8 m, 3.0 m] (the request is rejected or
\* the width is clamped).
C13_CorridorWidthWithinRange ==
  (production_pc = "done" /\ production_response.success) =>
    \A c \in 1..Len(production_response.corridors) :
      /\ production_response.corridors[c].width >= min_corridor_width
      /\ production_response.corridors[c].width <= max_corridor_width

\* ---------------------------------------------------------------------------
\* FloorPlanEngine.generate_floorplan (src/core_logic.py) and its fast twin
\* (src/core_logic_fast.py): from the request to the island size list.
\* Island dimensions in metres, areas in m^2, coverage in percent, target
\* areas in hundredths of m^2.
\* ---------------------------------------------------------------------------

fallback_coverage == 25
default_coverage_profile == 25
max_generated_islands == 100
max_quick_islands == 50
quick_islands_returned == 20

CoverageKeywords == {"low", "medium", "high", "maximum"}

\* self.coverage_profiles.get(coverage_profile, 0.25)
coverage_profiles(keyword) ==
  CASE keyword = "low" -> 10
    [] keyword = "medium" -> 25
    [] keyword = "high" -> 30
    [] keyword = "maximum" -> 35
    [] OTHER -> fallback_coverage

\* _parse_island_dimensions: the default sizes for an empty or invalid string
\* (given here as the empty list)
_parse_island_dimensions(kind, dims) ==
  IF dims # <<>> THEN dims
  ELSE IF kind = "standard" THEN <<<<3, 2>>, <<4, 3>>, <<5, 4>>, <<2, 2>>>>
  ELSE <<<<3, 2>>, <<4, 3>>, <<2, 2>>>>

\* sorted(base_dimensions, key=area, reverse=True): stable, largest first
RECURSIVE insert_dim(_, _)
insert_dim(sorted, d) ==
  IF sorted = <<>> THEN <<d>>
  ELSE IF Head(sorted)[1] * Head(sorted)[2] >= d[1] * d[2]
       THEN <<Head(sorted)>> \o insert_dim(Tail(sorted), d)
       ELSE <<d>> \o sorted

RECURSIVE sorted_dims(_)
sorted_dims(dims) ==
  IF dims = <<>> THEN <<>>
  ELSE insert_dim(sorted_dims(SubSeq(dims, 1, Len(dims) - 1)), dims[Len(dims)])

\* current_area + island_area <= target_area * 1.1
fits_target(cur, d, target) == (cur + d[1] * d[2]) * 1000 <= target * 11

\* the for loop shared by _generate_island_sizes (lines 60-67) and
\* _quick_island_sizes (lines 45-50): one pass over the dimensions
RECURSIVE add_sizes(_, _, _, _, _)
add_sizes(dims, k, target, made, cur) ==
  IF k > Len(dims) THEN [islands |-> made, area |-> cur]
  ELSE LET fits == fits_target(cur, dims[k], target)
           made2 == IF fits THEN Append(made, dims[k]) ELSE made
           cur2 == IF fits THEN cur + dims[k][1] * dims[k][2] ELSE cur
       IN IF cur2 * 100 >= target THEN [islands |-> made2, area |-> cur2]
          ELSE add_sizes(dims, k + 1, target, made2, cur2)

\* ---- the request as a state machine ----

FloorAreas == {0, 20, 40, 96, 200}

IslandStrings == {<<>>, <<<<3, 2>>>>, <<<<4, 3>>, <<2, 2>>>>, <<<<5, 4>>>>}

SizesInit ==
  /\ EngineIdle
  /\ corridor_width \in CorridorWidths
  /\ CorridorIdle
  /\ PlacerIdle
  /\ ProductionIdle
  /\ CategoriesIdle
  /\ PreparerIdle
  /\ FastIdle
  /\ optimizer \in {"standard", "fast"}
  /\ coverage_keyword \in CoverageKeywords \cup {"other"}
  /\ floor_area \in FloorAreas
  /\ island_dimensions \in IslandStrings
  /\ coverage = 0
  /\ target_island_area = 0
  /\ sized_islands = <<>>
  /\ generated_area = 0
  /\ sizes_pc = "request"
  /\ while_turns = 0

\* generate_floorplan, lines 55-56
MapCoverageProfile ==
  /\ sizes_pc = "request"
  /\ island_dimensions' = _parse_island_dimensions(optimizer, island_dimensions)
  /\ coverage' = coverage_profiles(coverage_keyword)
  /\ sizes_pc' = "optimize"
  /\ UNCHANGED <<optimizer, coverage_keyword, floor_area, target_island_area,
                 sized_islands, generated_area, while_turns>>

\* _optimize_layout, lines 118-121: no usable area, the empty layout
NoUsableArea ==
  /\ sizes_pc = "optimize"
  /\ floor_area = 0
  /\ sizes_pc' = "returned"
  /\ UNCHANGED <<optimizer, coverage_keyword, coverage, floor_area, island_dimensions,
                 target_island_area, sized_islands, generated_area, while_turns>>

\* _optimize_layout line 123 calls optimize_layout(usable_area,
\* island_dimensions, corridor_width), which calls the optimizer's
\* optimize_layout with the same three arguments: coverage_profile takes its
\* default and target_island_area = total_area * coverage_profile
OptimizeLayout ==
  /\ sizes_pc = "optimize"
  /\ floor_area > 0
  /\ target_island_area' = floor_area * default_coverage_profile
  /\ sized_islands' = <<>>
  /\ generated_area' = 0
  /\ sizes_pc' = "sizes"
  /\ UNCHANGED <<optimizer, coverage_keyword, coverage, floor_area, island_dimensions,
                 while_turns>>

\* LayoutOptimizer._generate_island_sizes: one turn of the while loop of
\* line 59, or its exit
GenerateIslandSizes ==
  /\ sizes_pc = "sizes"
  /\ optimizer = "standard"
  /\ LET dims == sorted_dims(island_dimensions)
         looping == /\ generated_area * 100 < target_island_area
                    /\ Len(sized_islands) < max_generated_islands
         pass == add_sizes(dims, 1, target_island_area, sized_islands, generated_area)
         none_fits == /\ pass.area * 100 < target_island_area
                      /\ \A k \in 1..Len(dims) :
                           ~fits_target(pass.area, dims[k], target_island_area)
     IN IF ~looping
        THEN /\ sizes_pc' = "returned"
             /\ UNCHANGED <<sized_islands, generated_area, while_turns>>
        ELSE /\ sized_islands' = pass.islands
             /\ generated_area' = pass.area
             /\ while_turns' = (while_turns + 1) % 2
             /\ sizes_pc' = IF none_fits THEN "returned" ELSE "sizes"
  /\ UNCHANGED <<optimizer, coverage_keyword, coverage, floor_area, island_dimensions,
                 target_island_area>>

\* FastLayoutOptimizer._quick_island_sizes: one turn of the while loop of
\* line 44, or its exit with islands[:20]
QuickIslandSizes ==
  /\ sizes_pc = "sizes"
  /\ optimizer = "fast"
  /\ LET looping == /\ generated_area * 100 < target_island_area
                    /\ Len(sized_islands) < max_quick_islands
         pass == add_sizes(island_dimensions, 1, target_island_area, sized_islands,
                           generated_area)
         leaves == pass.islands = <<>> \/ pass.area * 100 >= target_island_area
         returned(l) == SubSeq(l, 1, Min(Len(l), quick_islands_returned))
     IN IF ~looping
        THEN /\ sizes_pc' = "returned"
             /\ sized_islands' = returned(sized_islands)
             /\ UNCHANGED <<generated_area, while_turns>>
        ELSE /\ sized_islands' = IF leaves THEN returned(pass.islands) ELSE pass.islands
             /\ generated_area' = pass.area
             /\ while_turns' = (while_turns + 1) % 2
             /\ sizes_pc' = IF leaves THEN "returned" ELSE "sizes"
  /\ UNCHANGED <<optimizer, coverage_keyword, coverage, floor_area, island_dimensions,
                 target_island_area>>

SizesNext ==
  \/ MapCoverageProfile
       /\ UNCHANGED <<engine_vars, corridor_vars, placer_vars, production_vars,
                    category_vars, preparer_vars, fast_vars>>
  \/ NoUsableArea
       /\ UNCHANGED <<engine_vars, corridor_vars, placer_vars, production_vars,
                    category_vars, preparer_vars, fast_vars>>
  \/ OptimizeLayout
       /\ UNCHANGED <<engine_vars, corridor_vars, placer_vars, production_vars,
                    category_vars, preparer_vars, fast_vars>>
  \/ GenerateIslandSizes
       /\ UNCHANGED <<engine_vars, corridor_vars, placer_vars, production_vars,
                    category_vars, preparer_vars, fast_vars>>
  \/ QuickIslandSizes
       /\ UNCHANGED <<engine_vars, corridor_vars, placer_vars, production_vars,
                    category_vars, preparer_vars, fast_vars>>

SpecSizes == SizesInit /\ [][SizesNext]_vars

\* every step of the request that can be taken is eventually taken
FairSizes == SpecSizes /\ WF_vars(SizesNext)

\* C14: for each keyword of {low, medium, high, maximum} the placement target
\* area is the usable area times the mapped fraction (0.10, 0.25, 0.30, 0.35).
C14_KeywordSetsTarget ==
  (sizes_pc \in {"sizes", "returned"} /\ floor_area > 0
     /\ coverage_keyword \in CoverageKeywords) =>
    target_island_area = floor_area * coverage_profiles(coverage_keyword)

\* ---------------------------------------------------------------------------
\* Island categories: _parse_ilot_specifications of the engine and
\* _categorize_islands_by_size of the Backup optimizer, applied to one island.
\* ---------------------------------------------------------------------------

backup_small_max_area == 60000
backup_medium_max_area == 120000
backup_large_max_area == 200000

\* the category _categorize_islands_by_size files an island of area a under
backup_category(a) ==
  IF a <= backup_small_max_area THEN "small"
  ELSE IF a <= backup_medium_max_area THEN "medium"
  ELSE IF a <= backup_large_max_area THEN "large"
  ELSE "xlarge"

\* island sides of 1 m to MaxSide m, in cm
MaxSide == 6

Sides == {100 * k : k \in 1..MaxSide}

CategoriesInit ==
  /\ EngineIdle
  /\ corridor_width \in CorridorWidths
  /\ CorridorIdle
  /\ PlacerIdle
  /\ ProductionIdle
  /\ SizesIdle
  /\ PreparerIdle
  /\ FastIdle
  /\ \E w \in Sides, h \in Sides :
       categorisation = [NoCategorisation EXCEPT !.width = w, !.height = h]

\* the engine parses the island "w x h"
ParseIlotSpecification ==
  /\ categorisation.parsed = ""
  /\ categorisation' =
       [categorisation EXCEPT !.parsed =
          _parse_ilot_specifications(<<<<categorisation.width,
                                         categorisation.height>>>>)[1].category]

\* the Backup optimizer files the placed island box(0, 0, w, h)
CategorizeIslandBySize ==
  /\ categorisation.categorized = ""
  /\ categorisation' =
       [categorisation EXCEPT !.categorized =
          backup_category(area(box(0, 0, categorisation.width, categorisation.height)))]

CategoriesNext ==
  \/ ParseIlotSpecification
       /\ UNCHANGED <<engine_vars, corridor_vars, placer_vars, production_vars, sizes_vars,
                    preparer_vars, fast_vars>>
  \/ CategorizeIslandBySize
       /\ UNCHANGED <<engine_vars, corridor_vars, placer_vars, production_vars, sizes_vars,
                    preparer_vars, fast_vars>>

SpecCategories == CategoriesInit /\ [][CategoriesNext]_vars

\* C15: every island gets exactly one category of {small, medium, large,
\* extra_large}, fixed by its area alone, the same whichever optimizer
\* categorised it.
C15_OneCategoryByArea ==
  /\ categorisation.parsed \in {"", "small", "medium", "large", "extra_large"}
  /\ categorisation.categorized \in {"", "small", "medium", "large", "extra_large"}
  /\ (categorisation.parsed # "" /\ categorisation.categorized # "") =>
       categorisation.parsed = categorisation.categorized

\* C16: every request terminates on every input: island size generation
\* finishes within its budget, no loop runs unbounded.
C16_RequestTerminates == <>(sizes_pc = "returned")

\* the islands of the returned layout are all joined by the edges of its
\* circulation graph
all_islands_connected ==
  connected(Len(layout_result.layout.islands),
            {<<e.from, e.to>> : e \in corridor_result.circulation_graph})

\* C17: when corridor synthesis cannot connect all islands, the partial
\* corridors are returned, the request succeeds, and the quality-assurance
\* output holds a compliance warning about the missing connectivity.
C17_MissingConnectivityWarned ==
  (production_pc = "done" /\ layout_result.success /\ ~all_islands_connected) =>
    /\ production_response.success
    /\ production_response.corridors = corridor_result.corridors
    /\ \E k \in 1..Len(production_response.quality_assurance.warnings) :
         production_response.quality_assurance.warnings[k].kind = "connectivity"

\* the findings the returned layout calls for: one per corridor narrower
\* than the minimum, one per invalid island, one per pair of islands whose
\* intersection exceeds 0.1 m^2
findings_due ==
  LET isl == production_response.islands
      cor == production_response.corridors
  IN {[kind |-> "corridor_width", subject |-> <<cor[c].id>>] :
        c \in {c \in 1..Len(cor) : cor[c].width < min_corridor_width}}
     \cup {[kind |-> "invalid_geometry", subject |-> <<isl[i].id>>] :
             i \in {i \in 1..Len(isl) : is_empty(isl[i].geometry)}}
     \cup {[kind |-> "overlap", subject |-> <<isl[pr[1]].id, isl[pr[2]].id>>] :
             pr \in {q \in (1..Len(isl)) \X (1..Len(isl)) :
                       /\ q[1] < q[2]
                       /\ area(intersection(isl[q[1]].geometry, isl[q[2]].geometry))
                            > qa_overlap_tolerance}}

composite_with_relative_match(result, cp) ==
  LET den == result.coverage_achieved.den \div 100
      num == result.coverage_achieved.num \div 100
  IN 60 * Max(0, 100 * den - (100 * Abs(100 * num - cp * den)) \div cp)
       + 4 * result.accessibility_score * den

\* C19: the coverage-match of the evolutionary fitness and of the selection
\* composite is max(0, 1 - |actual - target| / target), a value of [0, 1].
C19_CoverageMatchRelativeFloored ==
  /\ \A k \in 1..Len(population) :
       /\ coverage_score(population[k], optimization_space, coverage_profile) >= 0
       /\ coverage_score(population[k], optimization_space, coverage_profile) <= 1000
  /\ \A r \in 1..Len(optimization_results) :
       composite_score(optimization_results[r], coverage_profile)
         = composite_with_relative_match(optimization_results[r], coverage_profile)

\* C20: for every layout, the empty one included, the accessibility score is
\* max(0, 1.0 - 0.1 per island closer than the entrance clearance to an
\* entrance - 0.05 per pair of islands closer than the minimum spacing), a
\* value of [0, 1] (per-mille here).
C20_AccessibilityScoreFormula ==
  \A r \in 1..Len(optimization_results) :
    LET layout == optimization_results[r].layout.islands
    IN /\ optimization_results[r].accessibility_score
            = Max(0, 1000 - 100 * Cardinality(near_entrance(layout, geometry))
                          - 50 * Cardinality(close_pairs(layout)))
       /\ optimization_results[r].accessibility_score \in 0..1000

\* ---------------------------------------------------------------------------
\* The coverage of the output statistics (src/production_engine.py)
\* ---------------------------------------------------------------------------

\* _validate_and_enhance_geometry, lines 138-148:
\* usable_area_value = walls.difference(restricted).area
usable_area_value(g) == area(g.walls) - area(intersection(g.walls, g.restricted_areas))

\* _calculate_comprehensive_statistics, lines 375-388: coverage_percentage is
\* total_island_area / usable_area (times 100), and stays 0 unless the
\* usable area is positive; given as the fraction num / den
statistics_coverage(g, layout_islands) ==
  IF usable_area_value(g) > 0
  THEN [num |-> layout_area(layout_islands), den |-> usable_area_value(g)]
  ELSE [num |-> 0, den |-> 1]

\* C21: the achieved coverage reported for a layout (coverage_achieved of
\* each strategy, and the coverage of the output statistics) is the sum of
\* the island areas divided by the area of the usable area they were placed on.
C21_CoverageIsAreaOverUsable ==
  /\ \A r \in 1..Len(optimization_results) :
       /\ optimization_results[r].coverage_achieved.num
            = layout_area(optimization_results[r].layout.islands)
       /\ optimization_results[r].coverage_achieved.den = region_area(optimization_space)
  /\ (pc = "done" /\ response.success) =>
       LET reported == statistics_coverage(geometry, response.layout.islands)
       IN (reported.num \div 100) * (region_area(optimization_space) \div 100)
            = (layout_area(response.layout.islands) \div 100) * (reported.den \div 100)

\* ---------------------------------------------------------------------------
\* Geometry preparation: AdvancedGeometryProcessor._calculate_usable_areas
\* (src/Backup/geometry/advanced_processor.py) and
\* GeometryProcessor._calculate_usable_area (src/Backup/geometry_processor.py)
\* on an envelope cut by one restricted zone that spans its height.
\* ---------------------------------------------------------------------------

min_room_area == 40000

\* the connected parts of envelope.difference(zone), zone a strip over the
\* whole height of the envelope: what is left of it and what is right of it
parts_of_difference(envelope, zone) ==
  IF is_empty(zone) THEN <<envelope>>
  ELSE SelectSeq(<<box(envelope.x1, envelope.y1,
                       Max(envelope.x1, Min(zone.x1, envelope.x2)), envelope.y2),
                   box(Min(envelope.x2, Max(zone.x2, envelope.x1)), envelope.y1,
                       envelope.x2, envelope.y2)>>,
                 LAMBDA b : ~is_empty(b))

\* max(polys, key=lambda p: p.area): the largest polygon; of several largest
\* ones the first in the order of the parts, which the geometry library fixes
largest_parts(polys) ==
  {polys[k] : k \in {k \in 1..Len(polys) :
                       \A j \in 1..Len(polys) : area(polys[j]) <= area(polys[k])}}

\* the 12 m x 2 m envelope and the restricted strips
Envelope == box(0, 0, 1200, 200)

StripEdges == {0, 100, 150, 200, 400, 600, 800, 1000, 1050, 1100, 1200}

RestrictedStrips ==
  {EmptyPolygon} \cup {box(e[1], 0, e[2], 200) :
                         e \in {f \in StripEdges \X StripEdges : f[1] < f[2]}}

PreparerInit ==
  /\ EngineIdle
  /\ corridor_width \in CorridorWidths
  /\ CorridorIdle
  /\ PlacerIdle
  /\ ProductionIdle
  /\ SizesIdle
  /\ CategoriesIdle
  /\ FastIdle
  /\ \E processor \in {"advanced", "basic"}, zone \in RestrictedStrips :
       preparation = [NoPreparation EXCEPT !.processor = processor, !.zones = <<zone>>]

\* AdvancedGeometryProcessor._calculate_usable_areas, lines 343-382
CalculateUsableAreas ==
  /\ preparation.processor = "advanced"
  /\ ~preparation.done
  /\ LET parts == parts_of_difference(Envelope, preparation.zones[1])
         rooms == SelectSeq(parts, LAMBDA poly : area(poly) >= min_room_area)
     IN \E kept \in (IF rooms = <<>> THEN {<<>>}
                     ELSE IF Len(parts) >= 2 THEN {<<poly>> : poly \in largest_parts(rooms)}
                     ELSE {rooms}) :
          preparation' = [preparation EXCEPT !.parts = parts, !.rooms = rooms,
                                             !.usable_area = kept, !.done = TRUE]

\* GeometryProcessor._calculate_usable_area, lines 246-267
CalculateUsableArea ==
  /\ preparation.processor = "basic"
  /\ ~preparation.done
  /\ LET parts == parts_of_difference(Envelope, preparation.zones[1])
     IN \E kept \in (IF parts = <<>> THEN {<<>>}
                     ELSE IF Len(parts) >= 2 THEN {<<poly>> : poly \in largest_parts(parts)}
                     ELSE {parts}) :
          preparation' = [preparation EXCEPT !.parts = parts, !.usable_area = kept,
                                             !.done = TRUE]

PreparerNext ==
  \/ CalculateUsableAreas
       /\ UNCHANGED <<engine_vars, corridor_vars, placer_vars, production_vars, sizes_vars,
                      category_vars, fast_vars>>
  \/ CalculateUsableArea
       /\ UNCHANGED <<engine_vars, corridor_vars, placer_vars, production_vars, sizes_vars,
                      category_vars, fast_vars>>

SpecPreparer == PreparerInit /\ [][PreparerNext]_vars

\* C22: the usable area derived holds every connected part of the
\* difference whose area is at least the minimum room area, and no smaller
\* part; all qualifying parts of a multi-part result are kept.
C22_AllQualifyingPartsKept ==
  preparation.done =>
    {preparation.usable_area[k] : k \in 1..Len(preparation.usable_area)}
      = {preparation.parts[k] : k \in {k \in 1..Len(preparation.parts) :
                                         area(preparation.parts[k]) >= min_room_area}}

(***************************************************************************)
(* Corridor synthesis is a function of the layout, the usable area and the *)
(* corridor width                                                          *)
(***************************************************************************)
edge_weight(layout, e) ==
  center_distance2(centroid(layout[e[1] + 1]), centroid(layout[e[2] + 1]))

\* edge f comes before edge e: shorter, or as long and lower island numbers
edge_precedes(layout, f, e) ==
  \/ edge_weight(layout, f) < edge_weight(layout, e)
  \/ /\ edge_weight(layout, f) = edge_weight(layout, e)
     /\ (f[1] < e[1] \/ (f[1] = e[1] /\ f[2] < e[2]))

\* the minimum spanning forest under that order: the candidate edges whose
\* ends are not joined by the edges before them
tie_broken_forest(layout) ==
  {e \in graph_edges(layout) :
     e[2] \notin reachable({e[1]}, {f \in graph_edges(layout) : edge_precedes(layout, f, e)})}

\* two candidate edges of equal length of which the forest takes only one
tie_decides(layout) ==
  \E e \in tie_broken_forest(layout) :
    \E f \in graph_edges(layout) \ tie_broken_forest(layout) :
      edge_weight(layout, e) = edge_weight(layout, f)

fast_grid_size == 100

\* int(v) of a length given in cm
grid_cell(v) == Trunc(v, fast_grid_size)

\* the positions of the two while loops that pass the quick grid check and
\* candidate.within(usable_area)
free_positions(pa, occupied, width, height) ==
  LET b == pa.outer
      xs == {b.x1 + i * fast_grid_size : i \in 0..((b.x2 - b.x1) \div fast_grid_size)}
      ys == {b.y1 + j * fast_grid_size : j \in 0..((b.y2 - b.y1) \div fast_grid_size)}
  IN {q \in xs \X ys :
        /\ q[2] + height <= b.y2
        /\ q[1] + width <= b.x2
        /\ <<grid_cell(q[1]), grid_cell(q[2])>> \notin occupied
        /\ within_placement_area(box(q[1], q[2], q[1] + width, q[2] + height), pa)}

\* the first of them in loop order: y outside, x inside
first_position(P) ==
  CHOOSE q \in P : \A r \in P : q[2] < r[2] \/ (q[2] = r[2] /\ q[1] <= r[1])

\* the cells added to occupied for an island placed at (x, y)
cells_marked(x, y, width, height) ==
  (grid_cell(x)..(grid_cell(x) + grid_cell(width)))
    \X (grid_cell(y)..(grid_cell(y) + grid_cell(height)))

\* most islands handed to one placement
MaxFastIslands == 3

\* island sizes (width, height), cm
FastSizes == {<<100, 100>>, <<200, 200>>, <<300, 300>>, <<150, 150>>}

\* a 6 m x 5 m room; the same room with bounds off the grid; an L-shaped room
FastAreas ==
  {[outer |-> box(0, 0, 600, 500), hole |-> EmptyPolygon],
   [outer |-> box(50, 50, 650, 550), hole |-> EmptyPolygon],
   [outer |-> box(0, 0, 600, 500), hole |-> box(400, 300, 600, 500)]}

FastInit ==
  /\ EngineIdle /\ corridor_width \in CorridorWidths /\ CorridorIdle /\ PlacerIdle /\ ProductionIdle /\ SizesIdle
  /\ CategoriesIdle /\ PreparerIdle
  /\ \E pa \in FastAreas, n \in 0..MaxFastIslands :
       \E sizes \in [1..n -> FastSizes] :
         fast_layout = [usable_area |-> pa, to_place |-> sizes, placed |-> <<>>,
                        occupied |-> {}, next |-> 1, returned |-> FALSE]

\* one turn of the loop over islands_to_place
FastPlaceIsland ==
  /\ ~fast_layout.returned
  /\ fast_layout.next \in 1..Len(fast_layout.to_place)
  /\ LET width == fast_layout.to_place[fast_layout.next][1]
         height == fast_layout.to_place[fast_layout.next][2]
         P == free_positions(fast_layout.usable_area, fast_layout.occupied, width, height)
     IN IF P = {}
        THEN fast_layout' = [fast_layout EXCEPT !.next = @ + 1]
        ELSE LET q == first_position(P)
             IN fast_layout' =
                  [fast_layout EXCEPT
                     !.placed = Append(@, box(q[1], q[2], q[1] + width, q[2] + height)),
                     !.occupied = @ \cup cells_marked(q[1], q[2], width, height),
                     !.next = @ + 1]

\* return placed
FastReturn ==
  /\ ~fast_layout.returned
  /\ fast_layout.next = Len(fast_layout.to_place) + 1
  /\ fast_layout' = [fast_layout EXCEPT !.returned = TRUE]

FastNext ==
  \/ FastPlaceIsland
       /\ UNCHANGED <<engine_vars, corridor_vars, placer_vars, production_vars, sizes_vars,
                      category_vars, preparer_vars>>
  \/ FastReturn
       /\ UNCHANGED <<engine_vars, corridor_vars, placer_vars, production_vars, sizes_vars,
                      category_vars, preparer_vars>>

SpecFast == FastInit /\ [][FastNext]_vars

\* C24: no two islands returned by the fast placement overlap with positive
\* area
C24_FastPlacementDisjoint ==
  fast_layout.returned =>
    \A i, j \in 1..Len(fast_layout.placed) :
      i < j => area(intersection(fast_layout.placed[i], fast_layout.placed[j])) = 0

(***************************************************************************)
(* Connectivity completion: which tree edges get a corridor                *)
(***************************************************************************)
\* the number of the detected row an island belongs to, -1 for none
row_of(i) ==
  IF \E r \in 1..Len(island_rows) : \E k \in 1..Len(island_rows[r]) : island_rows[r][k] = i
  THEN (CHOOSE r \in 1..Len(island_rows) :
          \E k \in 1..Len(island_rows[r]) : island_rows[r][k] = i) - 1
  ELSE -1

\* the corridors built before the tree step
facing_row_corridors == SelectSeq(corridors, LAMBDA c : c.via = "rows")

\* the tree step ran: fewer facing-row corridors than rows minus one
completion_ran ==
  /\ cpc = "done"
  /\ Len(placed_islands) >= 2
  /\ Len(facing_row_corridors) < Len(island_rows) - 1

\* a facing-row corridor touches the row of island i and the row of island j
rows_already_joined(i, j) ==
  \E k \in 1..Len(facing_row_corridors) :
    {row_of(i), row_of(j)}
      \subseteq {facing_row_corridors[k].connects[1], facing_row_corridors[k].connects[2]}

has_tree_corridor(e) ==
  \E k \in 1..Len(corridors) :
    /\ corridors[k].via = "mst"
    /\ corridors[k].connects = e
    /\ corridors[k].geometry.shape = "line"
    /\ corridors[k].geometry.half_width = corridor_width \div 2

\* C25: in connectivity completion a tree edge (i, j) is without a corridor
\* only if a corridor built before joins island i or its row with island j
\* or its row; every other tree edge has a straight-line corridor buffered
\* by half the corridor width.  Edges whose corridor is empty once clipped
\* and cut are not counted, and a facing-row corridor counts for every pair
\* of islands from the rows it touches.
C25_OnlySatisfiedEdgesSkipped ==
  completion_ran =>
    \A k \in 1..Len(mst_edges(placed_islands)) :
      LET e == mst_edges(placed_islands)[k]
      IN \/ has_tree_corridor(e)
         \/ rows_already_joined(e[1], e[2])
         \/ geometry_is_empty(_create_simple_corridor(placed_islands[e[1] + 1],
                                                      placed_islands[e[2] + 1],
                                                      usable_area, corridor_width))

(***************************************************************************)
(* Corridor polygons against the islands they connect                      *)
(***************************************************************************)
\* the area, measured on the sampling cells, that a line from p1 to p2
\* buffered by half_width shares with the footprint g
buffer_overlap_area(p1, p2, half_width, g) ==
  geometry_area(line_geometry(p1, p2, half_width, g, <<>>))

\* the islands of a layout whose centres a corridor line runs between
end_islands(layout_islands, corridor) ==
  {k \in 1..Len(layout_islands) :
     centroid(layout_islands[k].geometry) \in {corridor.geometry.p1, corridor.geometry.p2}}

\* C26: a corridor between two islands shares no area with the footprint of
\* either of them
C26_CorridorClearOfItsIslands ==
  production_pc \in {"qa", "done"} =>
    \A c \in 1..Len(corridor_result.corridors) :
      LET corridor == corridor_result.corridors[c]
      IN \A k \in end_islands(layout_result.layout.islands, corridor) :
           buffer_overlap_area(corridor.geometry.p1, corridor.geometry.p2,
                               corridor.geometry.half_width,
                               layout_result.layout.islands[k].geometry) = 0

(***************************************************************************)
(* Repositioning an island: _mutate and _apply_force_directed_optimization *)
(* applied, any number of times, to a layout of valid islands              *)
(***************************************************************************)
\* an 8 m x 6 m optimization space without restricted zone or entrance
MoveSpace == Region(box(0, 0, 800, 600), EmptyPolygon, NoPoint)

\* lower left corners of the 2 m x 2 m islands of the layouts moved
MoveCorners == {<<0, 100>>, <<200, 100>>, <<400, 250>>, <<299, 250>>, <<500, 0>>}

\* most repositioning steps applied to one layout
MaxMoves == 2

\* no two islands of the layout share any area and all are in the space
clean_layout(layout, space) ==
  /\ \A k \in 1..Len(layout) : region_contains(space, layout[k].geometry)
  /\ \A i, j \in 1..Len(layout) :
       i < j => area(intersection(layout[i].geometry, layout[j].geometry)) = 0

\* layouts of two or three islands as _generate_random_layout builds them
MoveLayouts ==
  LET spec == _parse_ilot_specifications(<<<<200, 200>>>>)[1]
      island(k, c) == make_island(k - 1, c[1] + spec.width \div 2, c[2] + spec.height \div 2, spec)
      all == UNION {{[k \in 1..n |-> island(k, cs[k])] : cs \in [1..n -> MoveCorners]} :
                      n \in 2..3}
  IN {l \in all : clean_layout(l, MoveSpace)}

MovesInit ==
  /\ CorridorIdle /\ PlacerIdle /\ ProductionIdle /\ SizesIdle
  /\ CategoriesIdle /\ PreparerIdle /\ FastIdle
  /\ geometry = [NoGeometry EXCEPT !.walls = MoveSpace.outer]
  /\ islands = <<<<200, 200>>>>
  /\ coverage_profile = 25
  /\ corridor_width \in CorridorWidths
  /\ pc \in {"genetic", "force_directed"}
  /\ ilot_specs = _parse_ilot_specifications(islands)
  /\ optimization_space = MoveSpace
  /\ \E layout \in MoveLayouts : population = <<layout>>
  /\ generation = 0
  /\ optimization_results = <<>>
  /\ raised = {}
  /\ response = NoResponse

\* offspring = self._mutate(offspring, optimization_space, ilot_specs)
MutateIndividual ==
  /\ pc = "genetic" /\ generation < MaxMoves
  /\ \E mutated \in _mutate(population[1], optimization_space) :
       population' = <<mutated>>
  /\ generation' = generation + 1
  /\ UNCHANGED <<geometry, islands, coverage_profile, corridor_width, pc, ilot_specs,
                 optimization_space, optimization_results, raised, response>>

\* optimized_layout = self._apply_force_directed_optimization(...)
RelaxLayout ==
  /\ pc = "force_directed" /\ generation < MaxMoves
  /\ population' = <<_apply_force_directed_optimization(population[1], optimization_space,
                                                        corridor_width)>>
  /\ generation' = generation + 1
  /\ UNCHANGED <<geometry, islands, coverage_profile, corridor_width, pc, ilot_specs,
                 optimization_space, optimization_results, raised, response>>

MovesNext ==
  \/ MutateIndividual
       /\ UNCHANGED <<corridor_vars, placer_vars, production_vars, sizes_vars, category_vars,
                      preparer_vars, fast_vars>>
  \/ RelaxLayout
       /\ UNCHANGED <<corridor_vars, placer_vars, production_vars, sizes_vars, category_vars,
                      preparer_vars, fast_vars>>

SpecMoves == MovesInit /\ [][MovesNext]_vars

\* C27: a mutation or a force relaxation of a layout leaves the number of
\* islands and the width and height of each as they were, and every island
\* is then in the space and no two islands share any area
C27_MovesKeepLayoutValid ==
  [][LET old == population[1]
         new == population'[1]
     IN /\ Len(new) = Len(old)
        /\ \A k \in 1..Len(new) :
             /\ new[k].width = old[k].width /\ new[k].height = old[k].height
             /\ new[k].geometry.x2 - new[k].geometry.x1 = old[k].width
             /\ new[k].geometry.y2 - new[k].geometry.y1 = old[k].height
        /\ clean_layout(new, optimization_space)]_vars

(***************************************************************************)
(* _genetic_algorithm with a population large enough for a top decile      *)
(*                                                                         *)
(* _crossover copies every island it takes (island.copy()) and _mutate     *)
(* assigns to those copies, so an offspring shares no island dictionary    *)
(* with a parent and the layouts are modelled as values.  The random draws *)
(* are limited to two different individuals per population: two blocks of  *)
(* any size in the initial population, two halves among the offspring.     *)
(***************************************************************************)
\* population_size of _genetic_algorithm (50 in the code), a full decile
DecilePopulationSize == 10

\* the individuals 1..m are a, the others b
two_blocks(n, m, a, b) == [k \in 1..n |-> IF k <= m THEN a ELSE b]

best_fitness(pop) ==
  SetMax({population_fitness(pop)[k] : k \in 1..Len(pop)})

DecileInit ==
  /\ CorridorIdle /\ PlacerIdle /\ ProductionIdle /\ SizesIdle
  /\ CategoriesIdle /\ PreparerIdle /\ FastIdle
  /\ geometry = [NoGeometry EXCEPT !.walls = box(0, 0, 600, 400)]
  /\ islands = <<<<200, 200>>>>
  /\ coverage_profile = 25
  /\ corridor_width \in CorridorWidths
  /\ pc = "prepare"
  /\ ilot_specs = <<>>
  /\ optimization_space = EmptyRegion
  /\ population = <<>>
  /\ generation = -1
  /\ optimization_results = <<>>
  /\ raised = {}
  /\ response = NoResponse

\* _genetic_algorithm, lines 186-201: the initial population
DecilePopulation ==
  /\ pc = "genetic" /\ generation = -1
  /\ \E m \in 0..DecilePopulationSize :
       \E a, b \in _generate_random_layout(optimization_space, ilot_specs,
                      num_ilots_target(optimization_space, ilot_specs, coverage_profile)) :
         population' = two_blocks(DecilePopulationSize, m, a, b)
  /\ generation' = 0
  /\ UNCHANGED <<geometry, islands, coverage_profile, corridor_width, pc,
                 ilot_specs, optimization_space, optimization_results,
                 raised, response>>

\* _genetic_algorithm, lines 204-233: one generation
DecileGeneration ==
  /\ pc = "genetic" /\ generation >= 0 /\ generation < Generations
  /\ LET fitness_scores == population_fitness(population)
         population_size == Len(population)
         elite_size == population_size \div elite_divisor
         order == sorted_indices(fitness_scores)
         elite == [k \in 1..elite_size |-> population[order[k]]]
         candidates == offspring_of(population, fitness_scores, optimization_space)
         offspring_size == population_size - elite_size
     IN \E a, b \in candidates :
          population' = elite \o two_blocks(offspring_size, offspring_size \div 2, a, b)
  /\ generation' = generation + 1
  /\ UNCHANGED <<geometry, islands, coverage_profile, corridor_width, pc,
                 ilot_specs, optimization_space, optimization_results,
                 raised, response>>

DecileNext ==
  \/ Prepare
       /\ UNCHANGED <<corridor_vars, placer_vars, production_vars, sizes_vars, category_vars,
                      preparer_vars, fast_vars>>
  \/ DecilePopulation
       /\ UNCHANGED <<corridor_vars, placer_vars, production_vars, sizes_vars, category_vars,
                      preparer_vars, fast_vars>>
  \/ DecileGeneration
       /\ UNCHANGED <<corridor_vars, placer_vars, production_vars, sizes_vars, category_vars,
                      preparer_vars, fast_vars>>
  \/ GeneticReturn
       /\ UNCHANGED <<corridor_vars, placer_vars, production_vars, sizes_vars, category_vars,
                      preparer_vars, fast_vars>>

SpecDecile == DecileInit /\ [][DecileNext]_vars

\* C28: from one generation to the next the population keeps its size, the
\* individuals of the top decile by fitness are in the new population as
\* they were, and the best fitness of the population does not decrease
C28_ElitistGenerations ==
  [][(generation >= 0 /\ generation' = generation + 1) =>
       LET fitness_scores == population_fitness(population)
           decile == Len(population) \div 10
           top == {k \in 1..Len(population) :
                     Cardinality({j \in 1..Len(population) :
                                    fitness_scores[j] > fitness_scores[k]}) < decile}
       IN /\ Len(population') = Len(population)
          /\ decile >= 1
          /\ \E kept \in SUBSET top :
               /\ Cardinality(kept) = decile
               /\ \A k \in kept : \E j \in 1..decile : population'[j] = population[k]
               /\ \A j \in 1..decile : \E k \in kept : population'[j] = population[k]
          /\ best_fitness(population') >= best_fitness(population)]_vars

\* a generation has passed in which every offspring is less fit than the
\* individual retained
C28_EliteAloneKeepsBest ==
  /\ pc = "genetic" /\ generation >= 1
  /\ \A k \in 2..Len(population) :
       population_fitness(population)[k] < population_fitness(population)[1]

(***************************************************************************)
(* Row detection                                                           *)
(***************************************************************************)
\* the centre heights of the islands of a layout
center_heights(layout) == {centroid(layout[k])[2] : k \in 1..Len(layout)}

\* islands i and j are in one run: going up from the lower centre to the
\* higher one, every centre height is followed by another at most the row
\* tolerance above it
same_run(layout, i, j) ==
  LET yi == centroid(layout[i + 1])[2]
      yj == centroid(layout[j + 1])[2]
  IN \A v \in center_heights(layout) :
       (Min(yi, yj) <= v /\ v < Max(yi, yj)) =>
         \E w \in center_heights(layout) : v < w /\ w <= v + y_tolerance

run_of(layout, i) == {j \in 0..(Len(layout) - 1) : same_run(layout, i, j)}

\* C29: the rows detected are exactly the maximal runs, of at least two
\* islands, of islands whose centre height is at most the row tolerance
\* above that of the island before in the order of centre heights; each
\* row lists its islands in that order, no island is in two rows or twice
\* in one, and an island alone in its run is in no row
C29_RowsAreMaximalRuns ==
  (cpc = "done" /\ Len(placed_islands) >= 2) =>
    LET members(r) == {island_rows[r][k] : k \in 1..Len(island_rows[r])}
        runs == {run_of(placed_islands, i) : i \in 0..(Len(placed_islands) - 1)}
    IN /\ {members(r) : r \in 1..Len(island_rows)} = {R \in runs : Cardinality(R) >= 2}
       /\ \A r \in 1..Len(island_rows) :
            /\ Cardinality(members(r)) = Len(island_rows[r])
            /\ \A k \in 1..(Len(island_rows[r]) - 1) :
                 /\ centroid(placed_islands[island_rows[r][k] + 1])[2]
                      <= centroid(placed_islands[island_rows[r][k + 1] + 1])[2]
                 /\ centroid(placed_islands[island_rows[r][k + 1] + 1])[2]
                      - centroid(placed_islands[island_rows[r][k] + 1])[2] <= y_tolerance
       /\ \A r, q \in 1..Len(island_rows) : r # q => members(r) \cap members(q) = {}

\* a row of three islands whose first and last centres are further apart
\* than the tolerance, next to an island that is in no row
C29_ChainedRowDetected ==
  /\ cpc = "done"
  /\ \E r \in 1..Len(island_rows) :
       /\ Len(island_rows[r]) >= 3
       /\ centroid(placed_islands[island_rows[r][Len(island_rows[r])] + 1])[2]
            - centroid(placed_islands[island_rows[r][1] + 1])[2] > y_tolerance
  /\ \E i \in 0..(Len(placed_islands) - 1) :
       \A r \in 1..Len(island_rows) : \A k \in 1..Len(island_rows[r]) : island_rows[r][k] # i

(***************************************************************************)
(* optimize_intelligent_layout on a hall of two accessibility zones        *)
(***************************************************************************)
\* a 20 m x 10 m hall with a restricted zone that leaves of its first
\* 10 m x 10 m accessibility zone one column of grid positions
Hall ==
  [walls |-> box(0, 0, 2000, 1000), restricted_areas |-> box(150, 400, 1000, 900),
   entrances |-> NoPoint]

\* islands "1x3" with a coverage profile of 5 or 6 percent
HallRequests ==
  {[islands |-> <<<<100, 300>>>>, coverage_profile |-> 5],
   [islands |-> <<<<100, 300>>>>, coverage_profile |-> 6]}

HallInit ==
  /\ CorridorIdle /\ PlacerIdle /\ ProductionIdle /\ SizesIdle
  /\ CategoriesIdle /\ PreparerIdle /\ FastIdle
  /\ geometry = Hall
  /\ \E rq \in HallRequests :
       /\ islands = rq.islands
       /\ coverage_profile = rq.coverage_profile
  /\ corridor_width \in CorridorWidths
  /\ pc = "prepare"
  /\ ilot_specs = <<>>
  /\ optimization_space = EmptyRegion
  /\ population = <<>>
  /\ generation = -1
  /\ optimization_results = <<>>
  /\ raised = {}
  /\ response = NoResponse

SpecHall == HallInit /\ [][Next]_vars

distinct_ids(layout) ==
  \A i, j \in 1..Len(layout) : i < j => layout[i].id # layout[j].id

\* C30: in the layout of every strategy's result, and in the layout
\* returned, no two islands have the same id
C30_IslandIdsDistinct ==
  /\ \A r \in 1..Len(optimization_results) :
       distinct_ids(optimization_results[r].layout.islands)
  /\ (pc = "done" /\ response.success) => distinct_ids(response.layout.islands)

====
